---- MODULE Spec2Model ----
(***************************************************************************)
(* Model of the KAMA strategy evaluation engine:                           *)
(*   strategies_backtest.py  calculate_kama, calculate_atr,                *)
(*                           KAMAStrategy.calculate_indicators,            *)
(*                           KAMAStrategy.get_signals, backtest_strategy   *)
(*                                                                         *)
(* Floating-point values are modelled as exact rationals [n, d] in lowest  *)
(* terms; d = 0 is the not-a-number value.  A standard deviation is kept   *)
(* as its square (the variance) and every comparison against a multiple of *)
(* it is decided on the squares, so no square root is ever taken.          *)
(* Python lists are sequences read with the 0-based accessor At.           *)
(* Optional values are sequences of length at most one (None == << >>).    *)
(***************************************************************************)
EXTENDS Integers, Sequences, FiniteSets, TLC

----------------------------------------------------------------------------
(* Rational arithmetic with a not-a-number value                           *)

RECURSIVE GCD(_, _)
GCD(a, b) == IF b = 0 THEN a ELSE GCD(b, a % b)

IAbs(x) == IF x < 0 THEN -x ELSE x

NaN == [n |-> 0, d |-> 0]

IsNaN(a) == a.d = 0

Norm(n, d) ==
    LET s == IF d < 0 THEN -1 ELSE 1
        g == GCD(IAbs(n), IAbs(d))
    IN  [n |-> (s * n) \div g, d |-> (s * d) \div g]

R(x) == [n |-> x, d |-> 1]

Q(x, y) == Norm(x, y)

Zero == R(0)

\* Sums are taken over the least common denominator and products are
\* cancelled crosswise first, to keep the integers small.
LCD(a, b) == (a.d \div GCD(a.d, b.d)) * b.d

OverLCD(a, b) == a.n * (LCD(a, b) \div a.d)

RAdd(a, b) == IF IsNaN(a) \/ IsNaN(b) THEN NaN
              ELSE Norm(OverLCD(a, b) + OverLCD(b, a), LCD(a, b))

RSub(a, b) == IF IsNaN(a) \/ IsNaN(b) THEN NaN
              ELSE Norm(OverLCD(a, b) - OverLCD(b, a), LCD(a, b))

RMul(a, b) ==
    IF IsNaN(a) \/ IsNaN(b) THEN NaN
    ELSE LET g1 == GCD(IAbs(a.n), b.d)
             g2 == GCD(IAbs(b.n), a.d)
         IN  Norm((a.n \div g1) * (b.n \div g2), (a.d \div g2) * (b.d \div g1))

\* Every division of the modelled code whose divisor can be zero is guarded
\* or modelled where it happens; a zero divisor here yields not-a-number.
RDiv(a, b) == IF IsNaN(a) \/ IsNaN(b) \/ b.n = 0 THEN NaN
              ELSE RMul(a, Norm(b.d, b.n))

RAbs(a) == [n |-> IAbs(a.n), d |-> a.d]

\* a/b < c/d for b, d > 0, by comparing integer parts and then the
\* reciprocals of the fractional parts (no product is formed).
RECURSIVE FracLt(_, _, _, _)
FracLt(a, b, c, d) ==
    IF a \div b # c \div d THEN a \div b < c \div d
    ELSE IF a % b = 0 THEN c % d > 0
    ELSE IF c % d = 0 THEN FALSE
    ELSE FracLt(d, c % d, b, a % b)

\* IEEE comparisons: anything compared with not-a-number is false.
RLt(a, b) == ~IsNaN(a) /\ ~IsNaN(b) /\ FracLt(a.n, a.d, b.n, b.d)

RGt(a, b) == RLt(b, a)

RLe(a, b) == ~IsNaN(a) /\ ~IsNaN(b) /\ ~FracLt(b.n, b.d, a.n, a.d)

RMax(a, b) == IF RGt(b, a) THEN b ELSE a

\* int(x) for a defined x: truncation toward zero.
RTrunc(a) == IF a.n >= 0 THEN a.n \div a.d ELSE -((-a.n) \div a.d)

At(s, i) == s[i + 1]

\* s[lo:hi] of Python, for 0 <= lo <= hi <= len(s)
Slice(s, lo, hi) == [j \in 1..(hi - lo) |-> s[lo + j]]

RECURSIVE RSum(_)
RSum(s) == IF s = << >> THEN Zero ELSE RAdd(Head(s), RSum(Tail(s)))

\* np.mean of a non-empty array
Mean(s) == RDiv(RSum(s), R(Len(s)))

RECURSIVE DropNaN(_)
DropNaN(s) == IF s = << >> THEN << >>
              ELSE IF IsNaN(Head(s)) THEN DropNaN(Tail(s))
              ELSE <<Head(s)>> \o DropNaN(Tail(s))

\* np.nanmean: the mean of the defined entries, not-a-number if there is none
NanMean(s) == IF DropNaN(s) = << >> THEN NaN ELSE Mean(DropNaN(s))

\* np.std squared (population variance, ddof = 0)
Variance(s) ==
    LET m == Mean(s)
    IN  Mean([j \in 1..Len(s) |-> RMul(RSub(s[j], m), RSub(s[j], m))])

\* m * sqrt(v), kept unevaluated
Root(m, v) == [m |-> m, v |-> v]

RootIsNaN(r) == IsNaN(r.m) \/ IsNaN(r.v)

RootSq(r) == RMul(RMul(r.m, r.m), r.v)

RootSign(r) == IF r.v.n = 0 \/ r.m.n = 0 THEN 0
               ELSE IF r.m.n > 0 THEN 1 ELSE -1

\* x > m * sqrt(v), decided on the squares
GtRoot(x, r) ==
    /\ ~IsNaN(x) /\ ~RootIsNaN(r)
    /\ IF x.n > 0
       THEN (IF RootSign(r) <= 0 THEN TRUE ELSE RGt(RMul(x, x), RootSq(r)))
       ELSE (IF RootSign(r) < 0 THEN RLt(RMul(x, x), RootSq(r)) ELSE FALSE)

----------------------------------------------------------------------------
(* Bounds and input sets                                                   *)

MaxBars == 5

\* Bars the series are built from: [open, high, low, close] in price ticks.
CandleShapes ==
    { [open |-> 10, high |-> 10, low |-> 10, close |-> 10],
      [open |-> 10, high |-> 12, low |-> 10, close |-> 12],
      [open |-> 12, high |-> 12, low |-> 11, close |-> 11],
      [open |-> 12, high |-> 16, low |-> 12, close |-> 13] }

Pm(kl, kf, ks, em, xm, al, sm, pl, pm, bm) ==
    [kama_len |-> kl, kama_fast |-> kf, kama_slow |-> ks,
     entry_mult |-> em, exit_mult |-> xm, atr_len |-> al,
     atr_sl_mult |-> sm, atr_phase_len |-> pl,
     atr_phase_mult |-> pm, body_atr_mult |-> bm]

ParamSets ==
    { Pm(1, 1, 3, R(1), R(1), 1, R(1), 1, Q(1, 2), Q(1, 2)),
      Pm(2, 3, 3, Q(1, 2), Q(1, 2), 1, Q(1, 4), 1, R(1), Q(1, 2)),
      Pm(1, 1, 1, R(1), R(1), 3, R(1), 2, Q(1, 2), Q(1, 2)) }

RECURSIVE SeqsOfLen(_, _)
SeqsOfLen(S, k) ==
    IF k = 0 THEN { << >> }
    ELSE { Append(s, x) : s \in SeqsOfLen(S, k - 1), x \in S }

\* Candle.time is the bar's position in the series: strictly increasing.
Timed(shapes) ==
    [j \in 1..Len(shapes) |->
        [time |-> j - 1, open |-> shapes[j].open, high |-> shapes[j].high,
         low |-> shapes[j].low, close |-> shapes[j].close]]

CandleSeries ==
    UNION { { Timed(s) : s \in SeqsOfLen(CandleShapes, k) } : k \in 0..MaxBars }

----------------------------------------------------------------------------
(* Indicator engine                                                        *)

IMax(a, b) == IF a >= b THEN a ELSE b

\* np.diff
Diff(s) == [j \in 1..(Len(s) - 1) |-> RSub(s[j + 1], s[j])]

calculate_kama(prices, length, fast, slow) ==
    LET n == Len(prices)
        fast_sc == Q(2, fast + 1)
        slow_sc == Q(2, slow + 1)
        RECURSIVE kama_build(_, _)
        kama_build(i, kama) ==
            IF i >= n THEN kama
            ELSE IF i < length THEN kama_build(i + 1, Append(kama, At(prices, i)))
            ELSE
                LET change == RAbs(RSub(At(prices, i), At(prices, i - length)))
                    d == Diff(Slice(prices, i - length, i + 1))
                    volatility == RSum([j \in 1..Len(d) |-> RAbs(d[j])])
                    er == IF volatility.n # 0 THEN RDiv(change, volatility)
                          ELSE Zero
                    b == RAdd(RMul(er, RSub(fast_sc, slow_sc)), slow_sc)
                    sc == RMul(b, b)
                    k == RAdd(RMul(sc, At(prices, i)),
                              RMul(RSub(R(1), sc), At(kama, i - 1)))
                IN  kama_build(i + 1, Append(kama, k))
    IN  kama_build(0, << >>)

TrueRange(high, low, close) ==
    [j \in 1..Len(high) |->
        IF j = 1 THEN RSub(high[1], low[1])
        ELSE RMax(RMax(RSub(high[j], low[j]),
                       RAbs(RSub(high[j], close[j - 1]))),
                  RAbs(RSub(low[j], close[j - 1])))]

\* Called only with Len(high) > length (get_signals checks the length first).
calculate_atr(high, low, close, length) ==
    LET n == Len(high)
        tr == TrueRange(high, low, close)
        RECURSIVE atr_build(_, _)
        atr_build(i, atr) ==
            IF i >= n THEN atr
            ELSE IF i < length THEN atr_build(i + 1, Append(atr, NaN))
            ELSE IF i = length
                 THEN atr_build(i + 1, Append(atr, Mean(Slice(tr, 1, length + 1))))
            ELSE atr_build(i + 1,
                       Append(atr, RDiv(RAdd(RMul(At(atr, i - 1), R(length - 1)),
                                             At(tr, i)),
                                        R(length))))
    IN  atr_build(0, << >>)

\* KamaDelta with the difference aligned with the earlier bar: entry j holds
\* the change that the next bar brings
KamaDelta_Lead(kama) ==
    [j \in 1..Len(kama) |->
        IF j = Len(kama) THEN Zero ELSE RSub(kama[j + 1], kama[j])]

\* lines 162-164: first difference, aligned with the later bar
KamaDelta(kama) ==
    [j \in 1..Len(kama) |-> IF j = 1 THEN Zero ELSE RSub(kama[j], kama[j - 1])]

calculate_indicators(cs, p) ==
    LET n == Len(cs)
        closes == [j \in 1..n |-> R(cs[j].close)]
        highs  == [j \in 1..n |-> R(cs[j].high)]
        lows   == [j \in 1..n |-> R(cs[j].low)]
        opens  == [j \in 1..n |-> R(cs[j].open)]
        kama == calculate_kama(closes, p.kama_len, p.kama_fast, p.kama_slow)
        kama_delta == KamaDelta(kama)
        atr == calculate_atr(highs, lows, closes, p.atr_len)
        atr_sma == [j \in 1..n |->
                       IF j - 1 < p.atr_phase_len THEN NaN
                       ELSE NanMean(Slice(atr, j - 1 - p.atr_phase_len, j - 1))]
        atr_phase_threshold == [j \in 1..n |-> RMul(atr_sma[j], p.atr_phase_mult)]
        in_vol_phase == [j \in 1..n |-> RGt(atr[j], atr_phase_threshold[j])]
        body == [j \in 1..n |-> RAbs(RSub(closes[j], opens[j]))]
        is_bull_strong ==
            [j \in 1..n |-> /\ RGt(closes[j], opens[j])
                            /\ RGt(body[j], RMul(atr[j], p.body_atr_mult))]
        kama_delta_var ==
            [j \in 1..n |->
                IF j - 1 < p.kama_len THEN NaN
                ELSE Variance(Slice(kama_delta, j - 1 - p.kama_len, j - 1))]
        entry_filter == [j \in 1..n |-> Root(p.entry_mult, kama_delta_var[j])]
        exit_filter  == [j \in 1..n |-> Root(p.exit_mult, kama_delta_var[j])]
        sl_level == [j \in 1..n |-> RSub(closes[j], RMul(atr[j], p.atr_sl_mult))]
    IN  [kama |-> kama, kama_delta |-> kama_delta, atr |-> atr,
         atr_sma |-> atr_sma, in_vol_phase |-> in_vol_phase,
         is_bull_strong |-> is_bull_strong, entry_filter |-> entry_filter,
         exit_filter |-> exit_filter, sl_level |-> sl_level,
         closes |-> closes, highs |-> highs, lows |-> lows, opens |-> opens]

----------------------------------------------------------------------------
(* State                                                                   *)

VARIABLES
    candles,          \* the bar series handed to backtest_strategy
    params,           \* the KAMAStrategy's ten parameters
    pc,               \* position of the run in the code
    indicators,       \* get_signals: the indicator arrays
    i,                \* get_signals: index of the bar being walked
    position,         \* get_signals: 0 = flat, 1 = long
    entry_price,      \* get_signals: price of the open entry
    sl_level,         \* get_signals: trailing stop
    signals,          \* get_signals: the list being built and returned
    initial_balance,  \* backtest_strategy argument
    commission,       \* backtest_strategy argument, in percent
    balance,          \* backtest_strategy: cash
    bt_position,      \* backtest_strategy: units held
    bt_entry_price,   \* backtest_strategy: price of the open trade
    trades,           \* backtest_strategy: list of Trade
    equity_curve,     \* backtest_strategy: list of equity points
    k,                \* backtest_strategy: index of the signal being processed
    result,           \* Optional[BacktestResult]
    fit_in,           \* calculate_fitness: the results handed to it
    fit_out,          \* calculate_fitness: the values it returned for them
    opt_method,       \* "grid" (optimize_grid_search) or "genetic"
    param_ranges,     \* optimize_grid_search argument
    max_iterations,   \* optimize_grid_search argument
    population_size,  \* optimize_genetic argument
    generations,      \* optimize_genetic argument
    train_results,    \* what backtest_strategy gave on the training bars,
                      \* per parameter set evaluated so far
    combinations,     \* optimize_grid_search: the candidates, in order
    population,       \* optimize_genetic: the current generation
    fitness_scores,   \* optimize_genetic: scores of the current generation
    generation,       \* optimize_genetic: number of the current generation
    opt_i,            \* index of the candidate / individual to evaluate next
    best_params,      \* Optional: best_params / best_individual
    best_fitness,     \* best fitness so far, -infinity at the start
    best_result,      \* Optional: the BacktestResult of best_params
    opt_pc,           \* position of the optimizer run
    opt_error,        \* the exception that ended the run, "" while none
    opt_record,       \* Optional[OptimizedParams]: the value returned
    now,              \* the wall clock, as datetime.now() reads it
    adaptive,         \* the AdaptiveStrategy object (None outside its runs)
    flat,             \* Optional: the flat record (dict) handed to from_dict
    flat_origin,      \* "to_dict", or what is wrong with a foreign record
    loaded,           \* Optional: what from_dict gave for the flat record
    retrain_answer,   \* Optional: the last should_retrain() call
    stat_in,          \* an equity curve handed to the statistics of a result
    stat_out,         \* Optional: the statistics computed from it
    self_candles,     \* StrategyOptimizer.candles: the bars, by their times
    train_candles,    \* StrategyOptimizer.train_candles
    val_candles,      \* StrategyOptimizer.val_candles
    backtest_candles, \* Optional: the bars of the optimizer's last backtest
    pool,             \* the AutoTrader objects constructed so far
    orders,           \* the orders posted to the broker, in order
    active_traders,   \* the module's _active_traders dict, by key
    handlers,         \* the callers of the trader's functions, by position
    feed              \* the broker's bars: their number at the history load
                      \* and when the last one has been published

engine_vars ==
    <<candles, params, pc, indicators, i, position, entry_price, sl_level,
      signals, initial_balance, commission, balance, bt_position,
      bt_entry_price, trades, equity_curve, k, result>>

fit_vars == <<fit_in, fit_out>>

opt_vars ==
    <<opt_method, param_ranges, max_iterations, population_size, generations,
      train_results, combinations, population, fitness_scores, generation,
      opt_i, best_params, best_fitness, best_result, opt_pc, opt_error,
      opt_record, self_candles, train_candles, val_candles, backtest_candles>>

rec_vars == <<now, adaptive, flat, flat_origin, loaded, retrain_answer>>

stat_vars == <<stat_in, stat_out>>

trader_vars == <<pool, orders, active_traders, handlers, feed>>

outside_engine == <<fit_vars, opt_vars, rec_vars, stat_vars, trader_vars>>

outside_fitness == <<engine_vars, opt_vars, rec_vars, stat_vars, trader_vars>>

outside_optimizer ==
    <<engine_vars, fit_vars, rec_vars, stat_vars, trader_vars>>

outside_record == <<engine_vars, fit_vars, opt_vars, stat_vars, trader_vars>>

outside_statistics ==
    <<engine_vars, fit_vars, opt_vars, rec_vars, trader_vars>>

outside_trader == <<engine_vars, fit_vars, opt_vars, rec_vars, stat_vars>>

vars == <<engine_vars, fit_vars, opt_vars, rec_vars, stat_vars, trader_vars>>

gs_vars == <<indicators, i, position, entry_price, sl_level, signals>>

bt_vars == <<initial_balance, commission, balance, bt_position,
             bt_entry_price, trades, equity_curve, k, result>>

None == << >>

Some(x) == <<x>>

NoIndicators ==
    [kama |-> << >>, kama_delta |-> << >>, atr |-> << >>, atr_sma |-> << >>,
     in_vol_phase |-> << >>, is_bull_strong |-> << >>, entry_filter |-> << >>,
     exit_filter |-> << >>, sl_level |-> << >>, closes |-> << >>,
     highs |-> << >>, lows |-> << >>, opens |-> << >>]

\* float('-inf')
NegInf == [n |-> -1, d |-> 0]

FitIdle ==
    /\ fit_in = << >>
    /\ fit_out = << >>

OptIdle ==
    /\ opt_method = ""
    /\ param_ranges = << >>
    /\ max_iterations = 0
    /\ population_size = 0
    /\ generations = 0
    /\ train_results = << >>
    /\ combinations = << >>
    /\ population = << >>
    /\ fitness_scores = << >>
    /\ generation = 0
    /\ opt_i = 0
    /\ best_params = None
    /\ best_fitness = NegInf
    /\ best_result = None
    /\ opt_pc = "idle"
    /\ opt_error = ""
    /\ opt_record = None
    /\ self_candles = << >>
    /\ train_candles = << >>
    /\ val_candles = << >>
    /\ backtest_candles = None

Datetime(day, second, microsecond) ==
    [day |-> day, second |-> second, microsecond |-> microsecond]

RecIdle ==
    /\ now = Datetime(0, 0, 0)
    /\ adaptive = None
    /\ flat = None
    /\ flat_origin = ""
    /\ loaded = None
    /\ retrain_answer = None

StatIdle ==
    /\ stat_in = << >>
    /\ stat_out = None

\* auto_trader.py lines 80-106: a trader as __init__ leaves it.  loops holds
\* the position of every thread started with target _trading_loop; thread
\* is self.thread, the index of the one started last.
AutoTrader(trade_percent) ==
    [trade_percent |-> trade_percent, is_running |-> FALSE, thread |-> None,
     loops |-> << >>, candles_history |-> << >>, last_candle_time |-> None,
     position |-> 0, last_signal |-> None]

\* one trader constructed and never started, nothing registered
TraderIdle ==
    /\ pool = << AutoTrader(R(100)) >>
    /\ orders = << >>
    /\ active_traders = << >>
    /\ handlers = << >>
    /\ feed = [initial |-> 0, final |-> 0]

Init ==
    /\ candles \in CandleSeries
    /\ params \in ParamSets
    /\ pc = "get_signals"
    /\ indicators = NoIndicators
    /\ i = 0
    /\ position = 0
    /\ entry_price = Zero
    /\ sl_level = Zero
    /\ signals = << >>
    /\ initial_balance = Zero
    /\ commission = Zero
    /\ balance = Zero
    /\ bt_position = 0
    /\ bt_entry_price = Zero
    /\ trades = << >>
    /\ equity_curve = << >>
    /\ k = 0
    /\ result = None
    /\ FitIdle
    /\ OptIdle
    /\ RecIdle
    /\ StatIdle
    /\ TraderIdle

----------------------------------------------------------------------------
(* KAMAStrategy.get_signals                                                *)

WarmUp(p) == IMax(IMax(p.kama_len, p.atr_len), p.atr_phase_len)

WalkStart(p) == IMax(p.kama_len, p.atr_phase_len)

BuySignal(price, time, sl, ind, j) ==
    [action |-> "BUY", price |-> price, time |-> time, sl |-> Some(sl),
     reason |-> None, entry_price |-> None, profit |-> None,
     profit_pct |-> None,
     indicators |-> Some([kama |-> At(ind.kama, j),
                          kama_delta |-> At(ind.kama_delta, j),
                          atr |-> At(ind.atr, j),
                          in_vol_phase |-> At(ind.in_vol_phase, j)])]

SellSignal(price, time, reason, entry) ==
    [action |-> "SELL", price |-> price, time |-> time, sl |-> None,
     reason |-> Some(reason), entry_price |-> Some(entry),
     profit |-> Some(RSub(price, entry)),
     profit_pct |-> Some(RMul(RSub(RDiv(price, entry), R(1)), R(100))),
     indicators |-> None]

\* LongEntry that accepts any non-negative momentum and skips the bar filters
LongEntry_NonStrict(ind, j) == At(ind.kama_delta, j).n >= 0

\* long_entry of the bar j
LongEntry(ind, j) ==
    /\ At(ind.kama_delta, j).n > 0
    /\ GtRoot(At(ind.kama_delta, j), At(ind.entry_filter, j))
    /\ At(ind.in_vol_phase, j)
    /\ At(ind.is_bull_strong, j)

EntryUndefined(ind, j) ==
    IsNaN(At(ind.kama_delta, j)) \/ RootIsNaN(At(ind.entry_filter, j))

FilterExit(ind, j) ==
    /\ ~IsNaN(At(ind.kama_delta, j))
    /\ ~RootIsNaN(At(ind.exit_filter, j))
    /\ At(ind.kama_delta, j).n < 0
    /\ GtRoot(RAbs(At(ind.kama_delta, j)), At(ind.exit_filter, j))

\* StopHit that gives way to the exit filter
StopHit_AfterFilter(ind, j, sl) ==
    RLe(At(ind.lows, j), sl) /\ ~FilterExit(ind, j)

\* line 262: the stop check
StopHit(ind, j, sl) == RLe(At(ind.lows, j), sl)

\* InitialStop that always takes the 2% fallback
InitialStop_Fallback(ind, j) == RMul(At(ind.closes, j), Q(98, 100))

\* line 245: the stop of a new position
InitialStop(ind, j) ==
    IF ~IsNaN(At(ind.sl_level, j)) THEN At(ind.sl_level, j)
    ELSE RMul(At(ind.closes, j), Q(98, 100))

\* Ratchet without the `current_sl > sl_level` test
Ratchet_Always(ind, j, sl) ==
    IF ~IsNaN(At(ind.sl_level, j)) THEN At(ind.sl_level, j) ELSE sl

Ratchet(ind, j, sl) ==
    IF ~IsNaN(At(ind.sl_level, j)) /\ RGt(At(ind.sl_level, j), sl)
    THEN At(ind.sl_level, j) ELSE sl

\* ExitState that forgets to reset the position flag
ExitState_StillLong == [position |-> 1, entry_price |-> Zero, sl_level |-> Zero]

\* lines 272-274 and 286-288: the walk's state after an exit
ExitState == [position |-> 0, entry_price |-> Zero, sl_level |-> Zero]

\* ForcedExit that returns the list as the walk left it
ForcedExit_Skipped(sigs, pos, cs, entry) == sigs

\* lines 295-305: the forced exit at the last close
ForcedExit(sigs, pos, cs, entry) ==
    IF pos > 0 /\ Len(cs) > 0
    THEN Append(sigs, SellSignal(R(cs[Len(cs)].close), cs[Len(cs)].time,
                                 "END", entry))
    ELSE sigs

\* NotEnoughBars that looks at the adaptive-average window only
NotEnoughBars_KamaOnly(cs, p) == Len(cs) < p.kama_len

\* line 215
NotEnoughBars(cs, p) == Len(cs) < WarmUp(p) + 1

\* lines 215-216: not enough history
TooShort ==
    /\ pc = "get_signals"
    /\ NotEnoughBars(candles, params)
    /\ signals' = << >>
    /\ pc' = "gs_return"
    /\ UNCHANGED <<candles, params, indicators, i, position, entry_price,
                   sl_level>>
    /\ UNCHANGED bt_vars
    /\ UNCHANGED outside_engine

\* lines 218-225: compute the indicators and start the walk.
\* calculate_atr writes atr[length] (line 111): with no more than atr_len
\* bars that is an IndexError, which leaves get_signals and its caller.
StartWalk ==
    /\ pc = "get_signals"
    /\ ~NotEnoughBars(candles, params)
    /\ IF Len(candles) <= params.atr_len
       THEN /\ pc' = "gs_raised"
            /\ UNCHANGED gs_vars
       ELSE /\ indicators' = calculate_indicators(candles, params)
            /\ signals' = << >>
            /\ position' = 0
            /\ entry_price' = Zero
            /\ sl_level' = Zero
            /\ i' = WalkStart(params)
            /\ pc' = "walk"
    /\ UNCHANGED <<candles, params>>
    /\ UNCHANGED bt_vars
    /\ UNCHANGED outside_engine

\* lines 236-240: flat, and the bar gives no entry
FlatNoEntry ==
    /\ pc = "walk" /\ i < Len(candles)
    /\ position = 0
    /\ EntryUndefined(indicators, i) \/ ~LongEntry(indicators, i)
    /\ i' = i + 1
    /\ UNCHANGED <<candles, params, pc, indicators, position, entry_price,
                   sl_level, signals>>
    /\ UNCHANGED bt_vars
    /\ UNCHANGED outside_engine

\* lines 242-257: flat -> long
EnterLong ==
    /\ pc = "walk" /\ i < Len(candles)
    /\ position = 0
    /\ ~EntryUndefined(indicators, i)
    /\ LongEntry(indicators, i)
    /\ position' = 1
    /\ entry_price' = At(indicators.closes, i)
    /\ sl_level' = InitialStop(indicators, i)
    /\ signals' = Append(signals,
                         BuySignal(At(indicators.closes, i), At(candles, i).time,
                                   InitialStop(indicators, i), indicators, i))
    /\ i' = i + 1
    /\ UNCHANGED <<candles, params, pc, indicators>>
    /\ UNCHANGED bt_vars
    /\ UNCHANGED outside_engine

\* lines 262-274: long -> flat at the stop price
StopLossExit ==
    /\ pc = "walk" /\ i < Len(candles)
    /\ position > 0
    /\ StopHit(indicators, i, sl_level)
    /\ signals' = Append(signals,
                         SellSignal(sl_level, At(candles, i).time, "SL",
                                    entry_price))
    /\ position' = ExitState.position
    /\ entry_price' = ExitState.entry_price
    /\ sl_level' = ExitState.sl_level
    /\ i' = i + 1
    /\ UNCHANGED <<candles, params, pc, indicators>>
    /\ UNCHANGED bt_vars
    /\ UNCHANGED outside_engine

\* lines 276-288: long -> flat at the close, by the exit filter
FilterExitLong ==
    /\ pc = "walk" /\ i < Len(candles)
    /\ position > 0
    /\ ~StopHit(indicators, i, sl_level)
    /\ FilterExit(indicators, i)
    /\ signals' = Append(signals,
                         SellSignal(At(indicators.closes, i),
                                    At(candles, i).time, "EXIT_FILTER",
                                    entry_price))
    /\ position' = ExitState.position
    /\ entry_price' = ExitState.entry_price
    /\ sl_level' = ExitState.sl_level
    /\ i' = i + 1
    /\ UNCHANGED <<candles, params, pc, indicators>>
    /\ UNCHANGED bt_vars
    /\ UNCHANGED outside_engine

\* lines 289-292: stay long, move the stop up if the bar's level is higher
HoldLong ==
    /\ pc = "walk" /\ i < Len(candles)
    /\ position > 0
    /\ ~StopHit(indicators, i, sl_level)
    /\ ~FilterExit(indicators, i)
    /\ sl_level' = Ratchet(indicators, i, sl_level)
    /\ i' = i + 1
    /\ UNCHANGED <<candles, params, pc, indicators, position, entry_price,
                   signals>>
    /\ UNCHANGED bt_vars
    /\ UNCHANGED outside_engine

\* lines 294-307: after the last bar, close an open position and return
EndOfData ==
    /\ pc = "walk" /\ i = Len(candles)
    /\ signals' = ForcedExit(signals, position, candles, entry_price)
    /\ pc' = "gs_return"
    /\ UNCHANGED <<candles, params, indicators, i, position, entry_price,
                   sl_level>>
    /\ UNCHANGED bt_vars
    /\ UNCHANGED outside_engine

\* lines 226-292 as a function of the walk's state: one bar of the loop
WalkStep(ind, cs, j, st) ==
    IF st.position = 0
    THEN IF EntryUndefined(ind, j) \/ ~LongEntry(ind, j) THEN st
         ELSE [position |-> 1, entry_price |-> At(ind.closes, j),
               sl_level |-> InitialStop(ind, j),
               signals |-> Append(st.signals,
                                  BuySignal(At(ind.closes, j), At(cs, j).time,
                                            InitialStop(ind, j), ind, j))]
    ELSE IF StopHit(ind, j, st.sl_level)
    THEN [position |-> ExitState.position,
          entry_price |-> ExitState.entry_price,
          sl_level |-> ExitState.sl_level,
          signals |-> Append(st.signals,
                             SellSignal(st.sl_level, At(cs, j).time, "SL",
                                        st.entry_price))]
    ELSE IF FilterExit(ind, j)
    THEN [position |-> ExitState.position,
          entry_price |-> ExitState.entry_price,
          sl_level |-> ExitState.sl_level,
          signals |-> Append(st.signals,
                             SellSignal(At(ind.closes, j), At(cs, j).time,
                                        "EXIT_FILTER", st.entry_price))]
    ELSE [st EXCEPT !.sl_level = Ratchet(ind, j, st.sl_level)]

\* lines 218-292 for a series with enough bars: the walk's state after the
\* last bar, before the forced exit
WalkSignals(cs, p) ==
    LET ind == calculate_indicators(cs, p)
        RECURSIVE walk(_, _)
        walk(j, st) == IF j >= Len(cs) THEN st
                       ELSE walk(j + 1, WalkStep(ind, cs, j, st))
    IN  walk(WalkStart(p),
             [position |-> 0, entry_price |-> Zero, sl_level |-> Zero,
              signals |-> << >>])

----------------------------------------------------------------------------
(* backtest_strategy                                                       *)

\* Every caller leaves the sizing policy at its defaults.
use_percent_of_equity == TRUE

equity_percent == R(100)

Balances == { R(0), R(5), R(100), R(120) }

Commissions == { R(0), Q(1, 20) }

Trade(entry_time, exit_time, entry, exit_price, quantity, profit, profit_pct) ==
    [entry_time |-> entry_time, exit_time |-> exit_time,
     entry_price |-> entry, exit_price |-> exit_price,
     quantity |-> quantity, direction |-> "LONG",
     profit |-> profit, profit_pct |-> profit_pct]

LastClose(cs) == R(cs[Len(cs)].close)

\* lines 386-391: the equity point appended after a signal
CurrentEquity(bal, pos, cs) ==
    IF pos > 0 /\ Len(cs) > 0
    THEN RAdd(bal, RMul(R(pos), LastClose(cs)))
    ELSE bal

\* RecordEquity that adds a point only when the equity moved
RecordEquity_OnChange(curve, equity) ==
    IF curve[Len(curve)] = equity THEN curve ELSE Append(curve, equity)

\* line 393
RecordEquity(curve, equity) == Append(curve, equity)

\* lines 343-347
Quantity(bal, price) ==
    IF use_percent_of_equity
    THEN RTrunc(RDiv(RMul(bal, RDiv(equity_percent, R(100))), price))
    ELSE 1

CommissionOf(amount, comm) == RMul(amount, RDiv(comm, R(100)))

\* CanOpen that compares the notional alone with the balance
CanOpen_NoCommission(bal, price, comm) ==
    /\ Quantity(bal, price) > 0
    /\ RLe(RMul(R(Quantity(bal, price)), price), bal)

\* lines 349-353: the entry is taken
CanOpen(bal, price, comm) ==
    /\ Quantity(bal, price) > 0
    /\ RLe(RAdd(RMul(R(Quantity(bal, price)), price),
                CommissionOf(RMul(R(Quantity(bal, price)), price), comm)),
           bal)

\* CloseLast that fills in the exit price and the profit but not the exit time
CloseLast_NoExitTime(ts, time, price, pos, entry, comm) ==
    LET revenue == RMul(R(pos), price)
        notional == RMul(R(pos), entry)
        profit == RSub(RSub(RSub(revenue, CommissionOf(revenue, comm)), notional),
                       RDiv(RMul(notional, comm), R(100)))
    IN  IF ts = << >> THEN ts
        ELSE [ts EXCEPT ![Len(ts)] =
                 [@ EXCEPT !.exit_price = Some(price), !.profit = Some(profit),
                           !.profit_pct =
                               Some(RMul(RDiv(profit, notional), R(100)))]]

\* lines 369-381 and 397-410: closing pos units at price
CloseLast(ts, time, price, pos, entry, comm) ==
    LET revenue == RMul(R(pos), price)
        commission_cost == CommissionOf(revenue, comm)
        notional == RMul(R(pos), entry)
        profit == RSub(RSub(RSub(revenue, commission_cost), notional),
                       RDiv(RMul(notional, comm), R(100)))
        profit_pct == RMul(RDiv(profit, notional), R(100))
    IN  IF ts = << >> THEN ts
        ELSE [ts EXCEPT ![Len(ts)] =
                 [@ EXCEPT !.exit_time = Some(time), !.exit_price = Some(price),
                           !.profit = Some(profit),
                           !.profit_pct = Some(profit_pct)]]

\* Proceeds that credits the revenue without the exit commission
Proceeds_Gross(pos, price, comm) == RMul(R(pos), price)

\* lines 369-371 and 398-400: what a close credits to the balance
Proceeds(pos, price, comm) ==
    RSub(RMul(R(pos), price), CommissionOf(RMul(R(pos), price), comm))

\* lines 332-338: the signals are in; the arguments are read for the first time
BacktestInit ==
    /\ pc = "gs_return"
    /\ \E b \in Balances, c \in Commissions :
          /\ initial_balance' = b
          /\ commission' = c
          /\ balance' = b
          /\ equity_curve' = <<b>>
    /\ bt_position' = 0
    /\ bt_entry_price' = Zero
    /\ trades' = << >>
    /\ k' = 0
    /\ pc' = "bt_loop"
    /\ UNCHANGED <<candles, params, result>>
    /\ UNCHANGED gs_vars
    /\ UNCHANGED outside_engine

\* lines 341-365 and 386-393: one BUY signal
ProcessBuy ==
    /\ pc = "bt_loop" /\ k < Len(signals)
    /\ At(signals, k).action = "BUY"
    /\ LET sig == At(signals, k)
           open == bt_position = 0 /\ CanOpen(balance, sig.price, commission)
           quantity == Quantity(balance, sig.price)
           total_cost == RMul(R(quantity), sig.price)
           bal == IF open
                  THEN RSub(balance,
                            RAdd(total_cost, CommissionOf(total_cost, commission)))
                  ELSE balance
           pos == IF open THEN quantity ELSE bt_position
       IN  /\ balance' = bal
           /\ bt_position' = pos
           /\ bt_entry_price' = IF open THEN sig.price ELSE bt_entry_price
           /\ trades' = IF open
                        THEN Append(trades,
                                    Trade(sig.time, None, sig.price, None,
                                          quantity, None, None))
                        ELSE trades
           /\ equity_curve' = RecordEquity(equity_curve,
                                           CurrentEquity(bal, pos, candles))
    /\ k' = k + 1
    /\ UNCHANGED <<candles, params, pc, initial_balance, commission, result>>
    /\ UNCHANGED gs_vars
    /\ UNCHANGED outside_engine

\* lines 367-384 and 386-393: one SELL signal
ProcessSell ==
    /\ pc = "bt_loop" /\ k < Len(signals)
    /\ At(signals, k).action = "SELL"
    /\ LET sig == At(signals, k)
           close == bt_position > 0
           bal == IF close
                  THEN RAdd(balance, Proceeds(bt_position, sig.price, commission))
                  ELSE balance
           pos == IF close THEN 0 ELSE bt_position
       IN  /\ balance' = bal
           /\ bt_position' = pos
           /\ bt_entry_price' = IF close THEN Zero ELSE bt_entry_price
           /\ trades' = IF close
                        THEN CloseLast(trades, sig.time, sig.price, bt_position,
                                       bt_entry_price, commission)
                        ELSE trades
           /\ equity_curve' = RecordEquity(equity_curve,
                                           CurrentEquity(bal, pos, candles))
    /\ k' = k + 1
    /\ UNCHANGED <<candles, params, pc, initial_balance, commission, result>>
    /\ UNCHANGED gs_vars
    /\ UNCHANGED outside_engine

IsCompleted(t) == t.exit_time # None

\* `t.profit and t.profit > 0`: a profit that is None or 0.0 is falsy
IsWinning(t) == t.profit # None /\ t.profit[1].n # 0 /\ RGt(t.profit[1], Zero)

IsLosing(t) == t.profit # None /\ t.profit[1].n # 0 /\ RLe(t.profit[1], Zero)

\* np.maximum.accumulate
RunningMax(s) ==
    LET RECURSIVE acc(_, _)
        acc(j, out) ==
            IF j > Len(s) THEN out
            ELSE IF j = 1 THEN acc(2, <<s[1]>>)
            ELSE acc(j + 1, Append(out, RMax(out[j - 1], s[j])))
    IN  acc(1, << >>)

\* np.min of a non-empty array: not-a-number if any entry is
RMinSeq(s) ==
    IF \E j \in 1..Len(s) : IsNaN(s[j]) THEN NaN
    ELSE CHOOSE x \in { s[j] : j \in 1..Len(s) } :
             \A j \in 1..Len(s) : RLe(x, s[j])

\* lines 421-424
MaxDrawdownPct(curve) ==
    LET running_max == RunningMax(curve)
        drawdown == [j \in 1..Len(curve) |->
                        RMul(RDiv(RSub(curve[j], running_max[j]),
                                  running_max[j]), R(100))]
    IN  RMinSeq(drawdown)

\* line 425
MaxDrawdown(initial, max_drawdown_pct) ==
    RMul(initial, RDiv(max_drawdown_pct, R(100)))

\* lines 428-432.  The quotient mean(returns) / std(returns) is kept as the
\* returns it is taken over, unevaluated; literal_zero says that the code
\* took the 0.0 branch instead (fewer than two equity points, or returns
\* whose standard deviation is not > 0).
Returns(curve) ==
    [j \in 1..(Len(curve) - 1) |->
        RMul(RDiv(RSub(curve[j + 1], curve[j]), curve[j]), R(100))]

\* np.std(returns) > 0 for a non-empty array
StdPositive(s) ==
    /\ \A a \in 1..Len(s) : ~IsNaN(s[a])
    /\ \E a, b \in 1..Len(s) : s[a] # s[b]

SharpeRatio(curve) ==
    IF Len(curve) > 1 /\ StdPositive(Returns(curve))
    THEN [literal_zero |-> FALSE, returns |-> Returns(curve)]
    ELSE [literal_zero |-> TRUE, returns |-> << >>]

\* lines 395-446: close what is still open, compute the statistics, return.
\* balance / initial_balance at line 418 divides Python floats (with a zero
\* starting balance no entry was ever affordable, so balance never became a
\* numpy scalar): a zero starting balance raises ZeroDivisionError.
Finish ==
    /\ pc = "bt_loop" /\ k = Len(signals)
    /\ LET force == bt_position > 0 /\ Len(candles) > 0
           bal == IF force
                  THEN RAdd(balance,
                            Proceeds(bt_position, LastClose(candles), commission))
                  ELSE balance
           ts == IF force
                 THEN CloseLast(trades, candles[Len(candles)].time,
                                LastClose(candles), bt_position, bt_entry_price,
                                commission)
                 ELSE trades
           completed_trades == SelectSeq(ts, IsCompleted)
           max_drawdown_pct == MaxDrawdownPct(equity_curve)
       IN  /\ balance' = bal
           /\ trades' = ts
           /\ IF initial_balance.n = 0
              THEN /\ pc' = "raised"
                   /\ result' = None
              ELSE /\ pc' = "done"
                   /\ result' = Some(
                        [total_trades |-> Len(completed_trades),
                         winning_trades |-> Len(SelectSeq(completed_trades, IsWinning)),
                         losing_trades |-> Len(SelectSeq(completed_trades, IsLosing)),
                         total_profit |-> RSub(bal, initial_balance),
                         total_profit_pct |->
                             RMul(RSub(RDiv(bal, initial_balance), R(1)), R(100)),
                         max_drawdown |->
                             MaxDrawdown(initial_balance, max_drawdown_pct),
                         max_drawdown_pct |-> max_drawdown_pct,
                         sharpe_ratio |-> SharpeRatio(equity_curve),
                         trades |-> completed_trades,
                         equity_curve |-> equity_curve,
                         final_balance |-> bal])
    /\ UNCHANGED <<candles, params, initial_balance, commission, bt_position,
                   bt_entry_price, equity_curve, k>>
    /\ UNCHANGED gs_vars
    /\ UNCHANGED outside_engine

Next ==
    \/ TooShort
    \/ StartWalk
    \/ FlatNoEntry
    \/ EnterLong
    \/ StopLossExit
    \/ FilterExitLong
    \/ HoldLong
    \/ EndOfData
    \/ BacktestInit
    \/ ProcessBuy
    \/ ProcessSell
    \/ Finish

Spec == Init /\ [][Next]_vars

----------------------------------------------------------------------------
(* StrategyOptimizer.calculate_fitness                                     *)

\* The summary of a BacktestResult that calculate_fitness reads.  Here the
\* risk-adjusted ratio is a number: the function only scales and clamps it.
FitResult(profit_pct, sharpe, drawdown_pct, winning, total) ==
    [total_profit_pct |-> profit_pct, sharpe_ratio |-> sharpe,
     max_drawdown_pct |-> drawdown_pct, winning_trades |-> winning,
     total_trades |-> total]

weight_profit == R(1)

weight_sharpe == Q(1, 2)

weight_winrate == Q(3, 10)

penalty_drawdown == Q(1, 2)

\* max(0, x) of Python: x when `x > 0` compares true, the 0 otherwise
Max0(x) == IF RGt(x, Zero) THEN x ELSE Zero

\* line 76
ProfitScore(r) ==
    IF RGt(r.total_profit_pct, Zero) THEN RDiv(r.total_profit_pct, R(100))
    ELSE Zero

\* line 77
SharpeScore(r) == RDiv(Max0(r.sharpe_ratio), R(3))

\* line 78
WinRate(r) ==
    IF r.total_trades > 0 THEN Q(r.winning_trades, r.total_trades) ELSE Zero

\* DrawdownPenalty without the abs()
DrawdownPenalty_Signed(r) == RDiv(r.max_drawdown_pct, R(100))

\* line 79
DrawdownPenalty(r) == RDiv(RAbs(r.max_drawdown_pct), R(100))

\* lines 82-95, with the default weights
calculate_fitness(r) ==
    LET base == RAdd(RAdd(RMul(weight_profit, ProfitScore(r)),
                          RMul(weight_sharpe, SharpeScore(r))),
                     RMul(weight_winrate, WinRate(r)))
        fitness == RSub(base, RMul(penalty_drawdown, DrawdownPenalty(r)))
    IN  IF r.total_trades < 10 THEN RMul(fitness, Q(1, 2)) ELSE fitness

FitProfits == { R(-20), R(0), R(10), R(30) }

FitSharpes == { R(-1), R(0), Q(3, 2), NaN }

FitDrawdowns == { R(0), R(-10), R(-40) }

\* <<winning_trades, total_trades>>
FitTrades == { <<0, 0>>, <<1, 2>>, <<9, 9>>, <<5, 10>>, <<12, 12>> }

FitResults ==
    { FitResult(p, s, d, t[1], t[2]) :
        p \in FitProfits, s \in FitSharpes, d \in FitDrawdowns, t \in FitTrades }

\* the results that differ from r in at most one of profit percent,
\* drawdown percent and the trade counts
FitVariants(r) ==
    { [r EXCEPT !.total_profit_pct = p] : p \in FitProfits }
    \cup { [r EXCEPT !.max_drawdown_pct = d] : d \in FitDrawdowns }
    \cup { [r EXCEPT !.winning_trades = t[1], !.total_trades = t[2]] :
             t \in FitTrades }

EngineIdle ==
    /\ candles = << >>
    /\ params \in { Pm(1, 1, 3, R(1), R(1), 1, R(1), 1, Q(1, 2), Q(1, 2)) }
    /\ pc = "idle"
    /\ indicators = NoIndicators
    /\ i = 0
    /\ position = 0
    /\ entry_price = Zero
    /\ sl_level = Zero
    /\ signals = << >>
    /\ initial_balance = Zero
    /\ commission = Zero
    /\ balance = Zero
    /\ bt_position = 0
    /\ bt_entry_price = Zero
    /\ trades = << >>
    /\ equity_curve = << >>
    /\ k = 0
    /\ result = None

FitInit ==
    /\ EngineIdle
    /\ OptIdle
    /\ RecIdle
    /\ StatIdle
    /\ TraderIdle
    /\ \E r \in FitResults : \E v \in FitVariants(r) : fit_in = <<r, v>>
    /\ fit_out = << >>

\* one call of calculate_fitness, on the next result handed in
CalculateFitness ==
    /\ Len(fit_out) < Len(fit_in)
    /\ fit_out' = Append(fit_out, calculate_fitness(fit_in[Len(fit_out) + 1]))
    /\ UNCHANGED fit_in
    /\ UNCHANGED outside_fitness

FitNext == CalculateFitness

FitSpec == FitInit /\ [][FitNext]_vars

----------------------------------------------------------------------------
(* StrategyOptimizer.optimize_grid_search and optimize_genetic             *)
(*                                                                         *)
(* backtest_strategy on the training bars is a function of the parameter   *)
(* set (the bars, the balance and the commission are fixed for the run).   *)
(* Its outcome for a parameter set, an exception or the summary of a       *)
(* BacktestResult, is chosen when the set is first evaluated and is the    *)
(* same every time that set is evaluated again.                            *)

\* The parameter sets of the runs: two values for kama_len and entry_mult,
\* one for each of the other eight, all inside the bounds of lines 222-233.
\* lines 222-233
param_bounds ==
    [kama_len |-> <<R(10), R(50)>>, kama_fast |-> <<R(2), R(10)>>,
     kama_slow |-> <<R(10), R(40)>>, entry_mult |-> <<Q(1, 2), R(3)>>,
     exit_mult |-> <<Q(3, 10), R(2)>>, atr_len |-> <<R(5), R(30)>>,
     atr_sl_mult |-> <<R(1), R(4)>>, atr_phase_len |-> <<R(20), R(100)>>,
     atr_phase_mult |-> <<Q(1, 2), R(2)>>, body_atr_mult |-> <<Q(1, 10), R(1)>>]

\* lines 241 and 306: int(np.random.uniform(min_val, max_val)), the sample
\* cut towards zero
IntDraw(u) == IF u.n >= 0 THEN u.n \div u.d ELSE -((-u.n) \div u.d)

\* the genes a draw can give: np.random.uniform(min_val, max_val) samples
\* [min_val, max_val); the integer parameters go through int()
GeneValues ==
    [kama_len |-> {IntDraw(Q(29, 2)), IntDraw(Q(87, 4))},
     kama_fast |-> {IntDraw(R(2))}, kama_slow |-> {IntDraw(Q(31, 2))},
     entry_mult |-> {Q(6, 5), R(2)}, exit_mult |-> {Q(3, 5)},
     atr_len |-> {IntDraw(Q(21, 2))}, atr_sl_mult |-> {Q(9, 5)},
     atr_phase_len |-> {IntDraw(Q(61, 2))},
     atr_phase_mult |-> {Q(4, 5)}, body_atr_mult |-> {Q(3, 10)}]

Genomes ==
    { Pm(kl, kf, ks, em, xm, al, sm, pl, pm, bm) :
        kl \in GeneValues.kama_len, kf \in GeneValues.kama_fast,
        ks \in GeneValues.kama_slow, em \in GeneValues.entry_mult,
        xm \in GeneValues.exit_mult, al \in GeneValues.atr_len,
        sm \in GeneValues.atr_sl_mult, pl \in GeneValues.atr_phase_len,
        pm \in GeneValues.atr_phase_mult, bm \in GeneValues.body_atr_mult }

ParamKeys ==
    { "kama_len", "kama_fast", "kama_slow", "entry_mult", "exit_mult",
      "atr_len", "atr_sl_mult", "atr_phase_len", "atr_phase_mult",
      "body_atr_mult" }

\* one entry of the param_ranges dict, in insertion order
Range(key, values) == [key |-> key, values |-> values]

FullRanges ==
    << Range("kama_len", <<14, 21>>), Range("kama_fast", <<2>>),
       Range("kama_slow", <<15>>), Range("entry_mult", <<Q(6, 5), R(2)>>),
       Range("exit_mult", <<Q(3, 5)>>), Range("atr_len", <<10>>),
       Range("atr_sl_mult", <<Q(9, 5)>>), Range("atr_phase_len", <<30>>),
       Range("atr_phase_mult", <<Q(4, 5)>>),
       Range("body_atr_mult", <<Q(3, 10)>>) >>

\* a dict that names one parameter only; KAMAStrategy defaults the others
PartialRanges == << Range("kama_len", <<14, 21>>) >>

RangeInputs == { FullRanges, PartialRanges }

IterationCaps == { 0, 2, 1000 }

PopulationSizes == { 0, 1, 2 }

GenerationCounts == { 1, 2, 3 }

\* what backtest_strategy can give for a parameter set on the training bars:
\* no trade at all; three trades, one of them winning, at a loss; twelve
\* trades, eight of them winning, at a profit
OutcomeResults ==
    { FitResult(R(0), R(0), R(0), 0, 0),
      FitResult(R(-5), R(-1), R(-20), 1, 3),
      FitResult(R(30), Q(3, 2), R(-10), 8, 12) }

\* None: the evaluation raised
Outcomes == { None } \cup { Some(r) : r \in OutcomeResults }

Evaluations(c, memo) == IF c \in DOMAIN memo THEN { memo[c] } ELSE Outcomes

Remember(c, o, memo) == IF c \in DOMAIN memo THEN memo ELSE (c :> o) @@ memo

\* itertools.product(*values), zipped with the keys: the last key runs fastest
RECURSIVE Product(_)
Product(ranges) ==
    IF Len(ranges) = 0 THEN << << >> >>
    ELSE LET h == Head(ranges)
             rest == Product(Tail(ranges))
             RECURSIVE over(_)
             over(j) ==
                 IF j > Len(h.values) THEN << >>
                 ELSE [r \in 1..Len(rest) |-> (h.key :> h.values[j]) @@ rest[r]]
                      \o over(j + 1)
         IN  over(1)

\* Combinations that never samples
Combinations_Uncapped(ranges, cap) == { Product(ranges) }

\* lines 139-149
Combinations(ranges, cap) ==
    IF Len(Product(ranges)) > cap
    THEN SeqsOfLen({ Product(ranges)[j] : j \in 1..Len(Product(ranges)) },
                   IMax(cap, 0))
    ELSE { Product(ranges) }

\* a > b where b may be float('-inf')
FitnessGt(a, b) == IF b = NegInf THEN ~IsNaN(a) ELSE RGt(a, b)

\* a <= b where either may be float('-inf')
FitnessLe(a, b) == a = NegInf \/ (b # NegInf /\ RLe(a, b))

\* GridImproves that also takes a candidate that only equals the best
GridImproves_OrEqual(fitness, best) ==
    best = NegInf \/ RGt(fitness, best) \/ fitness = best

\* line 168
GridImproves(fitness, best) == FitnessGt(fitness, best)

\* GaImproves that takes every evaluated individual
GaImproves_Always(fitness, best) == TRUE

\* line 268
GaImproves(fitness, best) == FitnessGt(fitness, best)

\* ExceptContinue that lets the exception leave the optimizer
ExceptContinue_Propagates(loop_pc) == "raised"

\* lines 176-177 and 273-275: the handler swallows the exception and the
\* loop goes on
ExceptContinue(loop_pc) == loop_pc

\* NewBestResult that keeps the result of the first candidate accepted
NewBestResult_First(outcome, old) == IF old = None THEN outcome ELSE old

\* lines 171 and 271
NewBestResult(outcome, old) == outcome

\* lines 191 and 318
WinRatePct(r) ==
    IF r.total_trades > 0
    THEN RMul(Q(r.winning_trades, r.total_trades), R(100)) ELSE Zero

\* lines 193-210 and 320-337
OptimizedParams(p, fitness, r) ==
    [kama_len |-> p.kama_len, kama_fast |-> p.kama_fast,
     kama_slow |-> p.kama_slow, entry_mult |-> p.entry_mult,
     exit_mult |-> p.exit_mult, atr_len |-> p.atr_len,
     atr_sl_mult |-> p.atr_sl_mult, atr_phase_len |-> p.atr_phase_len,
     atr_phase_mult |-> p.atr_phase_mult, body_atr_mult |-> p.body_atr_mult,
     fitness_score |-> fitness, total_profit_pct |-> r.total_profit_pct,
     sharpe_ratio |-> r.sharpe_ratio, max_drawdown_pct |-> r.max_drawdown_pct,
     win_rate |-> WinRatePct(r), total_trades |-> r.total_trades]

\* the number of bars of the series handed to the optimizer
SeriesLengths == {1, 4, 5}

\* a series of n bars in time order, each bar named by its time
BarsInOrder(n) == [j \in 1..n |-> j]

\* Split that trains on the whole series
Split_TrainOnAll(cs) ==
    [train |-> cs, val |-> SubSeq(cs, ((Len(cs) * 8) \div 10) + 1, Len(cs))]

\* lines 51-53: split_index = int(len(candles) * 0.8) and the two slices
Split(cs) ==
    LET split_index == (Len(cs) * 8) \div 10
    IN  [train |-> SubSeq(cs, 1, split_index),
         val |-> SubSeq(cs, split_index + 1, Len(cs))]

OptInit ==
    /\ EngineIdle
    /\ FitIdle
    /\ RecIdle
    /\ StatIdle
    /\ TraderIdle
    /\ \/ /\ opt_method = "grid"
          /\ param_ranges \in RangeInputs
          /\ max_iterations \in IterationCaps
          /\ population_size = 0
          /\ generations = 0
       \/ /\ opt_method = "genetic"
          /\ param_ranges = << >>
          /\ max_iterations = 0
          /\ population_size \in PopulationSizes
          /\ generations \in GenerationCounts
    /\ train_results = << >>
    /\ combinations = << >>
    /\ population = << >>
    /\ fitness_scores = << >>
    /\ generation = 0
    /\ opt_i = 0
    /\ best_params = None
    /\ best_fitness = NegInf
    /\ best_result = None
    /\ opt_pc = "start"
    /\ opt_error = ""
    /\ opt_record = None
    /\ \E n \in SeriesLengths :
          /\ self_candles = BarsInOrder(n)
          /\ train_candles = Split(BarsInOrder(n)).train
          /\ val_candles = Split(BarsInOrder(n)).val
    /\ backtest_candles = None

opt_inputs ==
    <<opt_method, param_ranges, max_iterations, population_size, generations,
      self_candles, train_candles, val_candles>>

\* lines 127-151: the candidate list, the whole product or a random sample
GridStart ==
    /\ opt_pc = "start" /\ opt_method = "grid"
    /\ combinations' \in Combinations(param_ranges, max_iterations)
    /\ opt_pc' = "grid_loop"
    /\ UNCHANGED <<opt_inputs, train_results, population, fitness_scores,
                   generation, opt_i, best_params, best_fitness, best_result,
                   opt_error, opt_record>>
    /\ UNCHANGED backtest_candles
    /\ UNCHANGED outside_optimizer

\* lines 153-177: one candidate, backtested on the training bars
GridEvaluate ==
    /\ opt_pc = "grid_loop"
    /\ opt_i < Len(combinations) /\ opt_i < max_iterations
    /\ \E o \in Evaluations(At(combinations, opt_i), train_results) :
          /\ train_results' = Remember(At(combinations, opt_i), o, train_results)
          /\ IF o = None
             THEN /\ opt_pc' = ExceptContinue("grid_loop")
                  /\ UNCHANGED <<best_params, best_fitness, best_result>>
             ELSE /\ opt_pc' = "grid_loop"
                  /\ IF GridImproves(calculate_fitness(o[1]), best_fitness)
                     THEN /\ best_fitness' = calculate_fitness(o[1])
                          /\ best_params' = Some(At(combinations, opt_i))
                          /\ best_result' = NewBestResult(o, best_result)
                     ELSE UNCHANGED <<best_params, best_fitness, best_result>>
    /\ opt_i' = opt_i + 1
    /\ UNCHANGED <<opt_inputs, combinations, population, fitness_scores,
                   generation, opt_error, opt_record>>
    /\ backtest_candles' = Some(train_candles)
    /\ UNCHANGED outside_optimizer

\* lines 179-210: no candidate found, or the validation run and the record.
\* The validation run is outside the try: an exception of backtest_strategy
\* on the validation bars leaves optimize_grid_search.  The record reads all
\* ten keys from best_params: a key that param_ranges did not name is a
\* KeyError.
GridFinish ==
    /\ opt_pc = "grid_loop"
    /\ opt_i >= Len(combinations) \/ opt_i >= max_iterations
    /\ IF best_params = None
       THEN /\ opt_pc' = "raised"
            /\ opt_error' = "OptimizationFailed"
            /\ opt_record' = None
       ELSE \E validation_raises \in BOOLEAN :
               IF validation_raises
               THEN /\ opt_pc' = "raised"
                    /\ opt_error' = "validation"
                    /\ opt_record' = None
               ELSE IF ~(ParamKeys \subseteq DOMAIN best_params[1])
               THEN /\ opt_pc' = "raised"
                    /\ opt_error' = "KeyError"
                    /\ opt_record' = None
               ELSE /\ opt_pc' = "returned"
                    /\ opt_error' = ""
                    /\ opt_record' = Some(OptimizedParams(best_params[1],
                                                          best_fitness,
                                                          best_result[1]))
    /\ UNCHANGED <<opt_inputs, train_results, combinations, population,
                   fitness_scores, generation, opt_i, best_params,
                   best_fitness, best_result>>
    /\ backtest_candles' = IF best_params = None THEN backtest_candles
                         ELSE Some(val_candles)
    /\ UNCHANGED outside_optimizer

\* lines 236-248: the first generation, drawn at random
GeneticStart ==
    /\ opt_pc = "start" /\ opt_method = "genetic"
    /\ population' \in SeqsOfLen(Genomes, population_size)
    /\ opt_pc' = "ga_loop"
    /\ UNCHANGED <<opt_inputs, train_results, combinations, fitness_scores,
                   generation, opt_i, best_params, best_fitness, best_result,
                   opt_error, opt_record>>
    /\ UNCHANGED backtest_candles
    /\ UNCHANGED outside_optimizer

\* lines 255-275: one individual of the current generation, backtested on
\* the training bars
GeneticEvaluate ==
    /\ opt_pc = "ga_loop" /\ generation < generations
    /\ opt_i < Len(population)
    /\ \E o \in Evaluations(At(population, opt_i), train_results) :
          /\ train_results' = Remember(At(population, opt_i), o, train_results)
          /\ IF o = None
             THEN /\ opt_pc' = ExceptContinue("ga_loop")
                  /\ fitness_scores' = Append(fitness_scores, NegInf)
                  /\ UNCHANGED <<best_params, best_fitness, best_result>>
             ELSE /\ opt_pc' = "ga_loop"
                  /\ fitness_scores' = Append(fitness_scores,
                                              calculate_fitness(o[1]))
                  /\ IF GaImproves(calculate_fitness(o[1]), best_fitness)
                     THEN /\ best_fitness' = calculate_fitness(o[1])
                          /\ best_params' = Some(At(population, opt_i))
                          /\ best_result' = NewBestResult(o, best_result)
                     ELSE UNCHANGED <<best_params, best_fitness, best_result>>
    /\ opt_i' = opt_i + 1
    /\ UNCHANGED <<opt_inputs, combinations, population, generation,
                   opt_error, opt_record>>
    /\ backtest_candles' = Some(train_candles)
    /\ UNCHANGED outside_optimizer

\* np.argsort(fitness_scores)[::-1]: the indices by descending score; the
\* order among equal scores is left to the sort
DescendingOrders(scores) ==
    { o \in [1..Len(scores) -> 1..Len(scores)] :
        /\ \A a, b \in 1..Len(scores) : a # b => o[a] # o[b]
        /\ \A a, b \in 1..Len(scores) :
              a < b => FitnessLe(scores[o[b]], scores[o[a]]) }

\* lines 283-285
Elites(pop, scores, size) ==
    { [j \in 1..(size \div 2) |-> pop[o[j]]] : o \in DescendingOrders(scores) }

\* lines 295-300: every gene from one parent or the other
Crossovers(p1, p2) ==
    { Pm(kl, kf, ks, em, xm, al, sm, pl, pm, bm) :
        kl \in {p1.kama_len, p2.kama_len}, kf \in {p1.kama_fast, p2.kama_fast},
        ks \in {p1.kama_slow, p2.kama_slow},
        em \in {p1.entry_mult, p2.entry_mult},
        xm \in {p1.exit_mult, p2.exit_mult}, al \in {p1.atr_len, p2.atr_len},
        sm \in {p1.atr_sl_mult, p2.atr_sl_mult},
        pl \in {p1.atr_phase_len, p2.atr_phase_len},
        pm \in {p1.atr_phase_mult, p2.atr_phase_mult},
        bm \in {p1.body_atr_mult, p2.body_atr_mult} }

\* Mutations that moves the gene by a step of thirty instead of drawing it
\* again
Mutations_Step(c) == {c} \cup { [c EXCEPT !.kama_len = @ + 30] }

\* lines 303-309: no mutation, or one gene drawn again
Mutations(c) ==
    {c}
    \cup { [c EXCEPT !.kama_len = v] : v \in GeneValues.kama_len }
    \cup { [c EXCEPT !.kama_fast = v] : v \in GeneValues.kama_fast }
    \cup { [c EXCEPT !.kama_slow = v] : v \in GeneValues.kama_slow }
    \cup { [c EXCEPT !.entry_mult = v] : v \in GeneValues.entry_mult }
    \cup { [c EXCEPT !.exit_mult = v] : v \in GeneValues.exit_mult }
    \cup { [c EXCEPT !.atr_len = v] : v \in GeneValues.atr_len }
    \cup { [c EXCEPT !.atr_sl_mult = v] : v \in GeneValues.atr_sl_mult }
    \cup { [c EXCEPT !.atr_phase_len = v] : v \in GeneValues.atr_phase_len }
    \cup { [c EXCEPT !.atr_phase_mult = v] : v \in GeneValues.atr_phase_mult }
    \cup { [c EXCEPT !.body_atr_mult = v] : v \in GeneValues.body_atr_mult }

\* lines 290-311: the children one pass of the while loop can append
Children(elite) ==
    UNION { UNION { Mutations(c) : c \in Crossovers(elite[a], elite[b]) } :
              a \in 1..Len(elite), b \in 1..Len(elite) }

\* lines 277-313: the end of a generation.  Before the last generation the
\* next population is bred: np.random.randint(0, len(elite)) raises
\* ValueError when the elite is empty and a child is needed.
GeneticBreed ==
    /\ opt_pc = "ga_loop" /\ generation < generations
    /\ opt_i = Len(population)
    /\ IF generation < generations - 1
       THEN \E elite \in Elites(population, fitness_scores, population_size) :
               IF Len(elite) < population_size /\ Len(elite) = 0
               THEN /\ opt_pc' = "raised"
                    /\ opt_error' = "randint"
                    /\ UNCHANGED <<population, generation, opt_i,
                                   fitness_scores>>
               ELSE /\ population' \in
                          { elite \o kids :
                              kids \in SeqsOfLen(Children(elite),
                                                 population_size - Len(elite)) }
                    /\ generation' = generation + 1
                    /\ opt_i' = 0
                    /\ fitness_scores' = << >>
                    /\ UNCHANGED <<opt_pc, opt_error>>
       ELSE /\ generation' = generation + 1
            /\ opt_i' = 0
            /\ fitness_scores' = << >>
            /\ UNCHANGED <<population, opt_pc, opt_error>>
    /\ UNCHANGED <<opt_inputs, train_results, combinations, best_params,
                   best_fitness, best_result, opt_record>>
    /\ UNCHANGED backtest_candles
    /\ UNCHANGED outside_optimizer

\* lines 315-337
GeneticFinish ==
    /\ opt_pc = "ga_loop" /\ generation >= generations
    /\ IF best_params = None
       THEN /\ opt_pc' = "raised"
            /\ opt_error' = "OptimizationFailed"
            /\ opt_record' = None
       ELSE /\ opt_pc' = "returned"
            /\ opt_error' = ""
            /\ opt_record' = Some(OptimizedParams(best_params[1], best_fitness,
                                                  best_result[1]))
    /\ UNCHANGED <<opt_inputs, train_results, combinations, population,
                   fitness_scores, generation, opt_i, best_params,
                   best_fitness, best_result>>
    /\ UNCHANGED backtest_candles
    /\ UNCHANGED outside_optimizer

OptNext ==
    \/ GridStart
    \/ GridEvaluate
    \/ GridFinish
    \/ GeneticStart
    \/ GeneticEvaluate
    \/ GeneticBreed
    \/ GeneticFinish

OptSpec == OptInit /\ [][OptNext]_vars

-----------------------------------------------------------------------------
(* AdaptiveStrategy: construction, to_dict, from_dict, should_retrain      *)
(*                                                                         *)
(* A datetime is [day, second, microsecond]: the day number, the second of *)
(* the day and the microsecond of the second.  The text isoformat() writes *)
(* is kept as the sequence of the fields it prints; the fraction of a      *)
(* second is printed only when it is not zero.  A dict is a function on    *)
(* the keys it holds.  A call either returns a value or raises:            *)
(* [error |-> "", value |-> <<v>>] or [error |-> name, value |-> << >>].   *)

SecondsPerDay == 86400

MicrosPerSecond == 1000000

\* the instants the clock is read at: midnight and noon of the day of
\* construction and of the days 29 and 30 days later, on the second and a
\* quarter of a second past it
Instants ==
    { Datetime(d, s, u) : d \in {0, 29, 30}, s \in {0, 43200}, u \in {0, 250000} }

Before(a, b) ==
    \/ a.day < b.day
    \/ a.day = b.day /\ a.second < b.second
    \/ a.day = b.day /\ a.second = b.second /\ a.microsecond < b.microsecond

\* the difference counted on the calendar dates alone
Timedelta_Dates(b, a) ==
    [days |-> b.day - a.day, seconds |-> 0, microseconds |-> 0]

\* datetime.__sub__: the normalised timedelta b - a, with
\* 0 <= seconds < 86400 and 0 <= microseconds < 1000000
Timedelta(b, a) ==
    LET us == b.microsecond - a.microsecond
        borrow_second == IF us < 0 THEN 1 ELSE 0
        s == b.second - a.second - borrow_second
        borrow_day == IF s < 0 THEN 1 ELSE 0
    IN  [days |-> b.day - a.day - borrow_day,
         seconds |-> s + borrow_day * SecondsPerDay,
         microseconds |-> us + borrow_second * MicrosPerSecond]

Value(v) == [error |-> "", value |-> Some(v)]

Raises(e) == [error |-> e, value |-> None]

\* a str value of the flat record that datetime.isoformat() wrote
IsoText(fields) == [kind |-> "iso", fields |-> fields]

\* a str value that is not in ISO format, and a value that is not a str
NotADate == [kind |-> "text", fields |-> << >>]

NotAString == [kind |-> "number", fields |-> << >>]

isoformat(dt) ==
    IF dt.microsecond = 0
    THEN IsoText(<<dt.day, dt.second>>)
    ELSE IsoText(<<dt.day, dt.second, dt.microsecond>>)

fromisoformat(v) ==
    IF v.kind = "number" THEN Raises("TypeError")
    ELSE IF v.kind = "text" THEN Raises("ValueError")
    ELSE Value(Datetime(v.fields[1], v.fields[2],
                          IF Len(v.fields) = 3 THEN v.fields[3] ELSE 0))

OptimizedParamsFields ==
    ParamKeys \cup { "fitness_score", "total_profit_pct", "sharpe_ratio",
                     "max_drawdown_pct", "win_rate", "total_trades" }

\* dataclasses.asdict on the flat dataclass
asdict(optimized_params) ==
    [field \in OptimizedParamsFields |-> optimized_params[field]]

\* OptimizedParams(**d): every field is required, no other keyword is
\* accepted, and no value is looked at
FromKeywords(d) ==
    IF DOMAIN d # OptimizedParamsFields THEN Raises("TypeError")
    ELSE Value([field \in OptimizedParamsFields |-> d[field]])

KAMAStrategy(p) ==
    Pm(p.kama_len, p.kama_fast, p.kama_slow, p.entry_mult, p.exit_mult,
       p.atr_len, p.atr_sl_mult, p.atr_phase_len, p.atr_phase_mult,
       p.body_atr_mult)

AdaptiveStrategy(figi, optimized_params, retrain_period_days, pinescript_code, name, clock) ==
    [figi |-> figi, optimized_params |-> optimized_params,
     retrain_period_days |-> retrain_period_days,
     last_retrain_date |-> clock, pinescript_code |-> pinescript_code,
     name |-> name, strategy |-> KAMAStrategy(optimized_params)]

should_retrain(self, clock) ==
    Timedelta(clock, self.last_retrain_date).days >= self.retrain_period_days

\* truth value of an Optional[str]: None and "" are both false
Truthy(text) == text # None /\ text[1] # ""

to_dict(self) ==
    LET base ==
            [figi |-> self.figi, params |-> asdict(self.optimized_params),
             last_retrain_date |-> isoformat(self.last_retrain_date),
             retrain_period_days |-> self.retrain_period_days]
        with_code ==
            IF Truthy(self.pinescript_code)
            THEN base @@ [pinescript_code |-> self.pinescript_code[1]]
            ELSE base
    IN  IF Truthy(self.name)
        THEN with_code @@ [name |-> self.name[1]]
        ELSE with_code

\* dict.get(key, default), as an Optional
Get(data, key) == IF key \in DOMAIN data THEN Some(data[key]) ELSE None

from_dict(data, clock) ==
    IF "params" \notin DOMAIN data THEN Raises("KeyError")
    ELSE LET made == FromKeywords(data.params) IN
    IF made.error # "" THEN made
    ELSE IF "figi" \notin DOMAIN data THEN Raises("KeyError")
    ELSE IF "last_retrain_date" \notin DOMAIN data THEN Raises("KeyError")
    ELSE LET strategy ==
                 AdaptiveStrategy(
                     data.figi, made.value[1],
                     IF "retrain_period_days" \in DOMAIN data
                     THEN data.retrain_period_days ELSE 30,
                     Get(data, "pinescript_code"), Get(data, "name"), clock)
             parsed == fromisoformat(data.last_retrain_date)
         IN  IF parsed.error # "" THEN parsed
             ELSE Value([strategy EXCEPT
                              !.last_retrain_date = parsed.value[1]])

Figis == {"BBG004730N88"}

RecordedParams ==
    { OptimizedParams(p, calculate_fitness(r), r) :
        p \in { Pm(14, 2, 15, Q(6, 5), Q(3, 5), 10, Q(9, 5), 30, Q(4, 5),
                   Q(3, 10)) },
        r \in { FitResult(R(30), Q(3, 2), R(-10), 8, 12) } }

RetrainPeriods == {0, 30}

OptionalTexts == {None, Some(""), Some("text")}

\* what a record that to_dict did not write can lack or hold
Defects ==
    { "no_figi", "no_params", "no_param_field", "no_last_retrain_date",
      "text_param", "text_last_retrain_date", "number_last_retrain_date" }

Without(data, key) == [field \in DOMAIN data \ {key} |-> data[field]]

Defective(data, defect) ==
    CASE defect = "no_figi" -> Without(data, "figi")
      [] defect = "no_params" -> Without(data, "params")
      [] defect = "no_param_field" ->
            [data EXCEPT !.params = Without(@, "kama_len")]
      [] defect = "no_last_retrain_date" -> Without(data, "last_retrain_date")
      [] defect = "text_param" ->
            [data EXCEPT !.params = [@ EXCEPT !.kama_len = "fourteen"]]
      [] defect = "text_last_retrain_date" ->
            [data EXCEPT !.last_retrain_date = NotADate]
      [] defect = "number_last_retrain_date" ->
            [data EXCEPT !.last_retrain_date = NotAString]

\* the state after AdaptiveStrategy(figi, optimized_params, ...) returned
RecInit ==
    /\ EngineIdle
    /\ FitIdle
    /\ OptIdle
    /\ StatIdle
    /\ TraderIdle
    /\ now \in { t \in Instants : t.day = 0 }
    /\ \E figi \in Figis, optimized_params \in RecordedParams,
          retrain_period_days \in RetrainPeriods,
          pinescript_code \in OptionalTexts, name \in OptionalTexts :
            adaptive = AdaptiveStrategy(figi, optimized_params,
                                        retrain_period_days,
                                        pinescript_code, name, now)
    /\ flat = None
    /\ flat_origin = ""
    /\ loaded = None
    /\ retrain_answer = None

\* time passes
Tick ==
    /\ \E t \in Instants : Before(now, t) /\ now' = t
    /\ UNCHANGED <<adaptive, flat, flat_origin, loaded, retrain_answer>>
    /\ UNCHANGED outside_record

\* self.to_dict()
ToDict ==
    /\ flat' = Some(to_dict(adaptive))
    /\ flat_origin' = "to_dict"
    /\ loaded' = None
    /\ UNCHANGED <<now, adaptive, retrain_answer>>
    /\ UNCHANGED outside_record

\* a record from elsewhere: one that lacks a field or holds a wrong value
ForeignRecord ==
    /\ \E defect \in Defects :
        /\ flat' = Some(Defective(to_dict(adaptive), defect))
        /\ flat_origin' = defect
    /\ loaded' = None
    /\ UNCHANGED <<now, adaptive, retrain_answer>>
    /\ UNCHANGED outside_record

\* AdaptiveStrategy.from_dict(data)
FromDict ==
    /\ flat # None
    /\ loaded = None
    /\ loaded' = Some(from_dict(flat[1], now))
    /\ UNCHANGED <<now, adaptive, flat, flat_origin, retrain_answer>>
    /\ UNCHANGED outside_record

\* self.should_retrain(), with the time of the call
ShouldRetrain ==
    /\ retrain_answer' =
          Some([at |-> now, value |-> should_retrain(adaptive, now)])
    /\ UNCHANGED <<now, adaptive, flat, flat_origin, loaded>>
    /\ UNCHANGED outside_record

RecNext ==
    \/ Tick
    \/ ToDict
    \/ ForeignRecord
    \/ FromDict
    \/ ShouldRetrain

RecSpec == RecInit /\ [][RecNext]_vars

-----------------------------------------------------------------------------
(* backtest_strategy, lines 420-432: the statistics of an equity curve     *)
(*                                                                         *)
(* The drawdown and the risk-adjusted ratio are a function of the equity   *)
(* curve and the starting balance.  They are applied here to every curve   *)
(* of up to four points that starts at the starting balance and stays      *)
(* positive: a curve that begins with gains is out of reach of the short   *)
(* series the engine is walked on.                                         *)

StatBalances == { R(100) }

StatEquities == { R(80), R(100), R(110), R(121) }

StatCurves ==
    { <<b>> \o tail :
        b \in StatBalances,
        tail \in SeqsOfLen(StatEquities, 0) \cup SeqsOfLen(StatEquities, 1)
                 \cup SeqsOfLen(StatEquities, 2)
                 \cup SeqsOfLen(StatEquities, 3) }

StatInit ==
    /\ EngineIdle
    /\ FitIdle
    /\ OptIdle
    /\ RecIdle
    /\ TraderIdle
    /\ stat_in \in StatCurves
    /\ stat_out = None

\* lines 420-432 on the curve handed in
ComputeStatistics ==
    /\ stat_out = None
    /\ stat_out' =
          Some([max_drawdown_pct |-> MaxDrawdownPct(stat_in),
                max_drawdown |->
                    MaxDrawdown(stat_in[1], MaxDrawdownPct(stat_in)),
                sharpe_ratio |-> SharpeRatio(stat_in)])
    /\ UNCHANGED stat_in
    /\ UNCHANGED outside_statistics

StatNext == ComputeStatistics

StatSpec == StatInit /\ [][StatNext]_vars

----------------------------------------------------------------------------
(* AutoTrader: the trading loop, start and stop, the registry of traders   *)
(*                                                                         *)
(* A bar of the live history is kept as its time, a whole number.  The     *)
(* broker holds the bars 1..feed.initial when a history is loaded and      *)
(* publishes the bars up to feed.final afterwards.  A thread running       *)
(* _trading_loop is at "load" (before _load_history), at "test" (the while *)
(* condition), in the "body" of an iteration, in the "sleep" that ends it, *)
(* or "exited".                                                            *)

MaxCalls == 3

MaxTraders == 2

\* what the broker answers while a signal is executed: the rouble balance,
\* the free quantity of the instrument, the lot size, or a failing call
Brokers ==
    { [raises |-> FALSE, money |-> R(1000), held |-> 0, lot |-> 10],
      [raises |-> FALSE, money |-> R(100), held |-> 10, lot |-> 1],
      [raises |-> TRUE, money |-> R(0), held |-> 0, lot |-> 1] }

\* auto_trader.py lines 356-445: _execute_signal for trader tr at broker b;
\* the position it leaves and the orders it posts.  Every exception is
\* caught and logged (443-445).
execute_signal(sig, tr, b) ==
    LET price == sig.price
        nothing == [position |-> tr.position, orders |-> << >>]
        falsy == ~IsNaN(price) /\ price.n = 0
        cost == RMul(b.money, RDiv(tr.trade_percent, R(100)))
        quantity == RTrunc(RDiv(cost, price))
        buy_lots == IMax(1, quantity \div b.lot)
        sell_lots == b.held \div b.lot
    IN  IF b.raises THEN nothing
        ELSE IF sig.action = "BUY" /\ tr.position = 0
        THEN IF falsy \/ IsNaN(price) THEN nothing
             ELSE IF RLt(b.money, RMul(price, R(10))) THEN nothing
             ELSE IF quantity > 0
             THEN [position |-> buy_lots * b.lot,
                   orders |-> << [direction |-> "BUY", quantity |-> buy_lots] >>]
             ELSE nothing
        ELSE IF sig.action = "SELL" /\ tr.position > 0
        THEN IF falsy THEN nothing
             ELSE IF b.held <= 0 THEN [position |-> 0, orders |-> << >>]
             ELSE IF sell_lots > 0
             THEN [position |-> 0,
                   orders |-> << [direction |-> "SELL", quantity |-> sell_lots] >>]
             ELSE nothing
        ELSE nothing

\* auto_trader.py lines 179-201 for the trader pool[1]: get_signals has
\* returned for self.candles_history (the series `candles`); the last
\* signal, if there is one, is remembered and executed
ForwardSignal ==
    /\ pc = "gs_return"
    /\ \E b \in Brokers :
          LET tr == pool[1]
              done == IF signals = << >>
                      THEN [position |-> tr.position, orders |-> << >>]
                      ELSE execute_signal(signals[Len(signals)], tr, b)
          IN  /\ pool' = [pool EXCEPT ![1] =
                             [@ EXCEPT !.last_signal =
                                           IF signals = << >> THEN @
                                           ELSE Some(signals[Len(signals)]),
                                       !.position = done.position]]
              /\ orders' = orders \o done.orders
    /\ pc' = "forwarded"
    /\ UNCHANGED <<candles, params>>
    /\ UNCHANGED gs_vars
    /\ UNCHANGED bt_vars
    /\ UNCHANGED <<active_traders, handlers, feed>>
    /\ UNCHANGED <<fit_vars, opt_vars, rec_vars, stat_vars>>

\* one pass of the trading loop over a history: get_signals, then the
\* forwarding of its last signal
LiveNext ==
    \/ TooShort
    \/ StartWalk
    \/ FlatNoEntry
    \/ EnterLong
    \/ StopLossExit
    \/ FilterExitLong
    \/ HoldLong
    \/ EndOfData
    \/ ForwardSignal

LiveSpec == Init /\ [][LiveNext]_vars

\* auto_trader.py lines 139-149: start()
start(tr) ==
    IF tr.is_running THEN tr
    ELSE [tr EXCEPT !.is_running = TRUE,
                    !.loops = Append(@, "load"),
                    !.thread = Some(Len(tr.loops) + 1)]

\* the bars get_candles(from_=from_date, ...) can answer with (lines
\* 329-337): up to two bars, in any order, from the one at last_candle_time
\* on; with no last_candle_time, from the latest bar of the history load on
\* (the last day)
Responses(last) ==
    LET from == IF last = None THEN IMax(1, feed.initial) ELSE last[1]
        bars == { x \in from..(from + 1) : x <= feed.final }
    IN  { << >> } \cup { <<a>> : a \in bars }
                 \cup { <<a, b>> : a \in bars, b \in bars }

\* lines 339-352: _get_new_candles keeps the bars later than
\* last_candle_time, which it moves forward as it goes
NewCandles(response, last) ==
    LET RECURSIVE scan(_, _, _)
        scan(j, new, lct) ==
            IF j > Len(response)
            THEN [new_candles |-> new, last_candle_time |-> lct]
            ELSE IF lct = None \/ response[j] > lct[1]
            THEN scan(j + 1, Append(new, response[j]), Some(response[j]))
            ELSE scan(j + 1, new, lct)
    IN  scan(1, << >>, last)

\* lines 172-177: the new bars are appended one by one; after each append a
\* history of more than 500 bars loses its first bar
AppendCandles(history, new_candles) ==
    LET RECURSIVE add(_, _)
        add(j, h) ==
            IF j > Len(new_candles) THEN h
            ELSE add(j + 1, IF Len(h) + 1 > 500
                            THEN Tail(Append(h, new_candles[j]))
                            ELSE Append(h, new_candles[j]))
    IN  add(1, history)

\* what signals[-1] of get_signals(self.candles_history) can be (line 184):
\* no signal at all, or a SELL.  A signal list that is not empty ends with
\* the SELL of an exit or with the SELL that strategies_backtest.py lines
\* 295-305 append when the walk ends in a position.
LastSignals == { None, Some([action |-> "SELL", price |-> R(12)]) }

\* lines 214-324: _load_history.  The list is emptied and filled with the
\* bars of one answer, which come in time order (the sort at line 279
\* leaves them so); a failing request leaves it empty.  last_candle_time is
\* set only when bars were loaded.
LoadHistory(t, j) ==
    /\ pool[t].loops[j] = "load"
    /\ \E answer \in { BarsInOrder(feed.initial), << >> } :
          pool' = [pool EXCEPT ![t] =
                      [@ EXCEPT !.loops[j] = "test",
                                !.candles_history = answer,
                                !.last_candle_time =
                                    IF answer = << >> THEN @
                                    ELSE Some(answer[Len(answer)])]]
    /\ UNCHANGED <<orders, active_traders, handlers, feed>>
    /\ UNCHANGED outside_trader

\* line 166: while self.is_running
LoopTest(t, j) ==
    /\ pool[t].loops[j] = "test"
    /\ pool' = [pool EXCEPT ![t].loops[j] =
                   IF pool[t].is_running THEN "body" ELSE "exited"]
    /\ UNCHANGED <<orders, active_traders, handlers, feed>>
    /\ UNCHANGED outside_trader

\* lines 167-201: one iteration up to its sleep.  A failing request gives
\* no new bars (353-354); with new bars the history grows, get_signals runs
\* and its last signal is executed.
Iterate(t, j) ==
    /\ pool[t].loops[j] = "body"
    /\ \E response \in Responses(pool[t].last_candle_time),
          last \in LastSignals, b \in Brokers :
          LET tr == pool[t]
              got == NewCandles(response, tr.last_candle_time)
              forwarded == got.new_candles # << >> /\ last # None
              done == IF forwarded THEN execute_signal(last[1], tr, b)
                      ELSE [position |-> tr.position, orders |-> << >>]
          IN  /\ pool' = [pool EXCEPT ![t] =
                             [@ EXCEPT !.loops[j] = "sleep",
                                       !.last_candle_time = got.last_candle_time,
                                       !.candles_history =
                                           AppendCandles(@, got.new_candles),
                                       !.last_signal =
                                           IF forwarded THEN last ELSE @,
                                       !.position = done.position]]
              /\ orders' = orders \o done.orders
    /\ UNCHANGED <<active_traders, handlers, feed>>
    /\ UNCHANGED outside_trader

\* lines 203-205: time.sleep(60) is over
Wake(t, j) ==
    /\ pool[t].loops[j] = "sleep"
    /\ pool' = [pool EXCEPT ![t].loops[j] = "test"]
    /\ UNCHANGED <<orders, active_traders, handlers, feed>>
    /\ UNCHANGED outside_trader

\* the threads started so far, by trader and number
Threads ==
    { th \in (1..Len(pool)) \X (1..MaxCalls) : th[2] <= Len(pool[th[1]].loops) }

\* the bars of the broker: none at the load and two later, 499 and two
\* later, 501 and two later (a day of one-minute bars has more than 500)
Feeds ==
    { [initial |-> 0, final |-> 2], [initial |-> 499, final |-> 501],
      [initial |-> 501, final |-> 503] }

\* One AutoTrader and one caller of its start() and stop().  The caller's
\* record counts its calls and says whether it is inside stop(), waiting
\* in join.
LoopInit ==
    /\ EngineIdle
    /\ FitIdle
    /\ OptIdle
    /\ RecIdle
    /\ StatIdle
    /\ pool = << AutoTrader(R(100)) >>
    /\ orders = << >>
    /\ active_traders = << >>
    /\ handlers = << [pc |-> "idle", calls |-> 0] >>
    /\ feed \in Feeds

\* lines 139-149: a call of start()
CallStart ==
    /\ handlers[1].pc = "idle" /\ handlers[1].calls < MaxCalls
    /\ pool' = [pool EXCEPT ![1] = start(@)]
    /\ handlers' = [handlers EXCEPT ![1].calls = @ + 1]
    /\ UNCHANGED <<orders, active_traders, feed>>
    /\ UNCHANGED outside_trader

\* lines 151-155: a call of stop(), up to the join
CallStop ==
    /\ handlers[1].pc = "idle" /\ handlers[1].calls < MaxCalls
    /\ pool' = [pool EXCEPT ![1].is_running = FALSE]
    /\ handlers' = [handlers EXCEPT ![1].calls = @ + 1, ![1].pc = "join"]
    /\ UNCHANGED <<orders, active_traders, feed>>
    /\ UNCHANGED outside_trader

\* lines 155-158: thread.join(timeout=5) is over and stop() returns.  The
\* join ends when the thread has ended or when five seconds have passed;
\* the loop sleeps sixty seconds between iterations, so the five seconds
\* can pass at any position of the thread.
StopReturns ==
    /\ handlers[1].pc = "join"
    /\ handlers' = [handlers EXCEPT ![1].pc = "idle"]
    /\ UNCHANGED <<pool, orders, active_traders, feed>>
    /\ UNCHANGED outside_trader

LoopNext ==
    \/ CallStart
    \/ CallStop
    \/ StopReturns
    \/ \E th \in Threads : LoadHistory(th[1], th[2])
    \/ \E th \in Threads : LoopTest(th[1], th[2])
    \/ \E th \in Threads : Iterate(th[1], th[2])
    \/ \E th \in Threads : Wake(th[1], th[2])

LoopSpec == LoopInit /\ [][LoopNext]_vars

\* key = f"{figi}_{account_id}" (lines 566 and 578): the callers of the
\* registry all name the same instrument and account
Key == "figi_account"

\* lines 553-573: start_auto_trader, one step of caller h.  The steps are
\* the construction of the trader, the test `key in _active_traders`, the
\* lookup and stop() of the registered trader up to its join, the end of
\* the join, the registration, and start().  A lookup of a key that another
\* caller has deleted meanwhile raises KeyError and ends the call.
StartAutoTrader(h) ==
    /\ LET me == handlers[h]
       IN  \/ /\ me.pc = "idle" /\ Len(pool) < MaxTraders
              /\ pool' = Append(pool, AutoTrader(R(100)))
              /\ handlers' = [handlers EXCEPT ![h].pc = "start_test",
                                              ![h].trader = Len(pool) + 1]
              /\ UNCHANGED active_traders
           \/ /\ me.pc = "start_test"
              /\ handlers' = [handlers EXCEPT ![h].pc =
                                 IF Key \in DOMAIN active_traders
                                 THEN "start_stop" ELSE "start_register"]
              /\ UNCHANGED <<pool, active_traders>>
           \/ /\ me.pc = "start_stop"
              /\ IF Key \in DOMAIN active_traders
                 THEN /\ pool' = [pool EXCEPT
                                     ![active_traders[Key]].is_running = FALSE]
                      /\ handlers' = [handlers EXCEPT ![h].pc = "start_join"]
                 ELSE /\ handlers' = [handlers EXCEPT ![h].pc = "idle",
                                                      ![h].result = "KeyError"]
                      /\ UNCHANGED pool
              /\ UNCHANGED active_traders
           \/ /\ me.pc = "start_join"
              /\ handlers' = [handlers EXCEPT ![h].pc = "start_register"]
              /\ UNCHANGED <<pool, active_traders>>
           \/ /\ me.pc = "start_register"
              /\ active_traders' = (Key :> me.trader)
              /\ handlers' = [handlers EXCEPT ![h].pc = "start_start"]
              /\ UNCHANGED pool
           \/ /\ me.pc = "start_start"
              /\ pool' = [pool EXCEPT ![me.trader] = start(@)]
              /\ handlers' = [handlers EXCEPT ![h].pc = "idle",
                                              ![h].result = "trader"]
              /\ UNCHANGED active_traders
    /\ UNCHANGED <<orders, feed>>
    /\ UNCHANGED outside_trader

\* lines 576-583: stop_auto_trader, one step of caller h: the test (False
\* is returned for a key that is not registered), the lookup and stop() of
\* the registered trader up to its join, the end of the join, and the del,
\* after which True is returned.  A lookup or del of a key that another
\* caller has deleted meanwhile raises KeyError.
StopAutoTrader(h) ==
    /\ LET me == handlers[h]
       IN  \/ /\ me.pc = "idle"
              /\ handlers' = IF Key \in DOMAIN active_traders
                             THEN [handlers EXCEPT ![h].pc = "stop_stop"]
                             ELSE [handlers EXCEPT ![h].result = "False"]
              /\ UNCHANGED <<pool, active_traders>>
           \/ /\ me.pc = "stop_stop"
              /\ IF Key \in DOMAIN active_traders
                 THEN /\ pool' = [pool EXCEPT
                                     ![active_traders[Key]].is_running = FALSE]
                      /\ handlers' = [handlers EXCEPT ![h].pc = "stop_join"]
                 ELSE /\ handlers' = [handlers EXCEPT ![h].pc = "idle",
                                                      ![h].result = "KeyError"]
                      /\ UNCHANGED pool
              /\ UNCHANGED active_traders
           \/ /\ me.pc = "stop_join"
              /\ handlers' = [handlers EXCEPT ![h].pc = "stop_delete"]
              /\ UNCHANGED <<pool, active_traders>>
           \/ /\ me.pc = "stop_delete"
              /\ IF Key \in DOMAIN active_traders
                 THEN /\ active_traders' = << >>
                      /\ handlers' = [handlers EXCEPT ![h].pc = "idle",
                                                      ![h].result = "True"]
                 ELSE /\ handlers' = [handlers EXCEPT ![h].pc = "idle",
                                                      ![h].result = "KeyError"]
                      /\ UNCHANGED active_traders
              /\ UNCHANGED pool
    /\ UNCHANGED <<orders, feed>>
    /\ UNCHANGED outside_trader

\* No trader yet, an empty registry, and two request handlers of the web
\* server, which serves each request in a thread of its own.  The broker
\* holds no bar at the load and publishes one.
RegistryInit ==
    /\ EngineIdle
    /\ FitIdle
    /\ OptIdle
    /\ RecIdle
    /\ StatIdle
    /\ pool = << >>
    /\ orders = << >>
    /\ active_traders = << >>
    /\ handlers = [h \in 1..2 |-> [pc |-> "idle", trader |-> 0, result |-> ""]]
    /\ feed = [initial |-> 0, final |-> 1]

RegistryNext ==
    \/ \E h \in 1..2 : StartAutoTrader(h)
    \/ \E h \in 1..2 : StopAutoTrader(h)
    \/ \E th \in Threads : LoadHistory(th[1], th[2])
    \/ \E th \in Threads : LoopTest(th[1], th[2])
    \/ \E th \in Threads : Iterate(th[1], th[2])
    \/ \E th \in Threads : Wake(th[1], th[2])

RegistrySpec == RegistryInit /\ [][RegistryNext]_vars

----------------------------------------------------------------------------
(* Properties                                                              *)

LastSignal == signals[Len(signals)]

LastBar == candles[Len(candles)]

Returned == pc \notin {"get_signals", "walk", "gs_raised"}

\* C1: the signal list strictly alternates BUY, SELL, BUY, ... starting with
\* a BUY, and when the walk ends LONG the returned list ends with a SELL of
\* reason END priced at the last bar's close.
C1_SignalsAlternate ==
    /\ \A j \in 1..Len(signals) :
          signals[j].action = (IF j % 2 = 1 THEN "BUY" ELSE "SELL")
    /\ (Returned /\ position > 0) =>
          /\ signals # << >>
          /\ LastSignal.action = "SELL"
          /\ LastSignal.reason = Some("END")
          /\ LastSignal.price = R(LastBar.close)

\* a returned list BUY, SELL, BUY, SELL whose walk ended LONG
C1_Witness == pc = "gs_return" /\ position > 0 /\ Len(signals) = 4

\* C2 as stated: no bar is the bar of two signals of the list.
C2_NoBarHasTwoSignals ==
    \A a, b \in 1..Len(signals) :
        a # b => signals[a].time # signals[b].time

\* C2 amended: two signals share a bar only when they are the BUY emitted on
\* the last bar and the forced END exit that follows it; the walk itself
\* emits at most one signal per bar.
C2_OnlyForcedExitSharesBar ==
    \A a, b \in 1..Len(signals) :
        (a < b /\ signals[a].time = signals[b].time) =>
            /\ b = Len(signals)
            /\ a = b - 1
            /\ signals[b].reason = Some("END")
            /\ signals[a].action = "BUY"
            /\ signals[a].time = LastBar.time

\* a returned list whose last two signals are on the same bar, after an
\* earlier entry and exit on two different bars
C2_Witness ==
    /\ pc = "gs_return"
    /\ Len(signals) = 4
    /\ signals[3].time = signals[4].time
    /\ signals[1].time # signals[2].time

\* C3: while LONG the trailing stop never goes down from one bar to the next,
\* and it changes only by taking the bar's defined, strictly higher stop level.
C3_StopOnlyRatchetsUp ==
    [][(position > 0 /\ position' > 0) =>
          /\ RLe(sl_level, sl_level')
          /\ (sl_level' # sl_level) =>
                /\ pc = "walk" /\ i < Len(candles)
                /\ ~IsNaN(At(indicators.sl_level, i))
                /\ sl_level' = At(indicators.sl_level, i)
                /\ RGt(At(indicators.sl_level, i), sl_level)]_vars

\* LONG with a stop that has been moved since the entry
C3_Witness ==
    /\ pc = "walk" /\ position > 0
    /\ LastSignal.action = "BUY"
    /\ LastSignal.sl # Some(sl_level)

\* C4: no look-ahead.  After the walk has processed the bars 0..i-1 of the
\* series, the signals emitted so far are exactly the signals that the walk
\* over the series cut after those i bars emits (its forced END exit left
\* out): no bar after i-1 has influenced them.
C4_NoLookAhead ==
    (pc = "walk" /\ i >= WarmUp(params) + 1) =>
        signals = WalkSignals(SubSeq(candles, 1, i), params).signals

\* an entry and an exit decided with bars of the series still to come
C4_Witness ==
    /\ pc = "walk" /\ i >= WarmUp(params) + 1 /\ i < Len(candles)
    /\ Len(signals) >= 2

\* C5: a series with fewer bars than the largest of kama_len, atr_len and
\* atr_phase_len gives an empty signal list, and get_signals does not raise.
C5_ShortSeriesEmpty ==
    (Len(candles) < IMax(IMax(params.kama_len, params.atr_len),
                         params.atr_phase_len)) =>
        /\ pc \notin {"walk", "gs_raised"}
        /\ signals = << >>

\* get_signals has returned for a non-empty series that is too short
C5_Witness ==
    /\ pc = "gs_return"
    /\ Len(candles) > 0
    /\ Len(candles) < IMax(IMax(params.kama_len, params.atr_len),
                           params.atr_phase_len)

IsFlat(cs) ==
    \A a \in 1..Len(cs) :
        /\ cs[a].open = cs[1].close /\ cs[a].high = cs[1].close
        /\ cs[a].low = cs[1].close /\ cs[a].close = cs[1].close

\* C6: a flat series (every price of every bar the same) never gives a BUY.
C6_FlatSeriesNeverBuys ==
    IsFlat(candles) => \A j \in 1..Len(signals) : signals[j].action # "BUY"

\* a flat series, long enough to be walked, walked to its end
C6_Witness ==
    /\ IsFlat(candles)
    /\ pc = "gs_return"
    /\ Len(candles) > WarmUp(params)
    /\ i = Len(candles)

\* C7: on an empty signal list backtest_strategy returns, without raising,
\* zero trades, no winning and no losing trade, the starting balance as final
\* balance, an equity curve holding just the starting balance, zero drawdown
\* and a zero risk-adjusted ratio.
C7_EmptySignalsResult ==
    (pc \in {"done", "raised"} /\ signals = << >>) =>
        /\ pc = "done"
        /\ result # None
        /\ result[1].total_trades = 0
        /\ result[1].winning_trades = 0
        /\ result[1].losing_trades = 0
        /\ result[1].final_balance = initial_balance
        /\ result[1].equity_curve = <<initial_balance>>
        /\ result[1].max_drawdown_pct = Zero
        /\ result[1].max_drawdown = Zero
        /\ result[1].sharpe_ratio.literal_zero

\* C8: the equity curve starts with the starting balance and has one more
\* point per processed signal, whether or not the signal changed the position.
C8_EquityCurveLength ==
    (pc \in {"bt_loop", "done", "raised"}) =>
        /\ Len(equity_curve) = k + 1
        /\ equity_curve[1] = initial_balance
        /\ (pc = "done") =>
              /\ result[1].equity_curve = equity_curve
              /\ Len(result[1].equity_curve) = Len(signals) + 1

\* two signals processed, neither of which opened or closed a trade
C8_Witness == pc = "bt_loop" /\ k >= 2 /\ trades = << >>

OpenTrades == { j \in 1..Len(trades) : trades[j].exit_time = None }

\* C9: a Trade has its exit time and exit price both present or both absent;
\* during the simulation at most one Trade is open, it is the last one, and
\* one is open exactly when units are held; the result holds closed trades
\* only, and every trade that was opened is among them.
C9_TradesWellFormed ==
    /\ \A j \in 1..Len(trades) :
          (trades[j].exit_time = None) <=> (trades[j].exit_price = None)
    /\ (pc = "bt_loop") =>
          /\ Cardinality(OpenTrades) <= 1
          /\ OpenTrades \subseteq {Len(trades)}
          /\ (bt_position > 0) <=> (OpenTrades # {})
    /\ (pc = "done") =>
          /\ \A j \in 1..Len(result[1].trades) :
                /\ result[1].trades[j].exit_time # None
                /\ result[1].trades[j].exit_price # None
          /\ result[1].trades = trades

\* units held in the second trade, the first one closed
C9_Witness == pc = "bt_loop" /\ bt_position > 0 /\ Len(trades) = 2

ProfitPositive(t) == t.profit # None /\ RGt(t.profit[1], Zero)

\* C10: a closed trade with profit > 0 counts as winning and every other
\* closed trade, one with profit exactly 0 included, counts as losing, so
\* winning_trades + losing_trades = total_trades.
C10_WinLossPartition ==
    (pc = "done") =>
        LET r == result[1]
            wins == { j \in 1..Len(r.trades) : ProfitPositive(r.trades[j]) }
        IN  /\ r.winning_trades = Cardinality(wins)
            /\ r.losing_trades = Len(r.trades) - Cardinality(wins)
            /\ r.winning_trades + r.losing_trades = r.total_trades

SameButProfit(a, b) == [a EXCEPT !.total_profit_pct = b.total_profit_pct] = b

SameButDrawdown(a, b) == [a EXCEPT !.max_drawdown_pct = b.max_drawdown_pct] = b

\* C11: with the default weights and every other field of the result fixed,
\* the fitness does not go down when total_profit_pct goes up, and it goes
\* strictly down when |max_drawdown_pct| goes up, for trade counts below 10
\* and from 10 on.
C11_FitnessMonotone ==
    (Len(fit_out) = 2) =>
        /\ (SameButProfit(fit_in[1], fit_in[2])
              /\ RLe(fit_in[1].total_profit_pct, fit_in[2].total_profit_pct)) =>
              RLe(fit_out[1], fit_out[2])
        /\ (SameButDrawdown(fit_in[1], fit_in[2])
              /\ RLt(RAbs(fit_in[1].max_drawdown_pct),
                     RAbs(fit_in[2].max_drawdown_pct))) =>
              RGt(fit_out[1], fit_out[2])

\* two scored results with 10 or more trades, the second with the deeper
\* drawdown and nothing else changed
C11_Witness ==
    /\ Len(fit_out) = 2
    /\ fit_in[1].total_trades >= 10
    /\ SameButDrawdown(fit_in[1], fit_in[2])
    /\ RLt(RAbs(fit_in[1].max_drawdown_pct), RAbs(fit_in[2].max_drawdown_pct))
    /\ RGt(fit_in[1].total_profit_pct, Zero)

\* the candidate or individual that the next evaluation step evaluates
CurrentCandidate ==
    IF opt_method = "grid" THEN At(combinations, opt_i) ELSE At(population, opt_i)

\* the ten parameters of a returned record
ParamsOf(rec) ==
    Pm(rec.kama_len, rec.kama_fast, rec.kama_slow, rec.entry_mult,
       rec.exit_mult, rec.atr_len, rec.atr_sl_mult, rec.atr_phase_len,
       rec.atr_phase_mult, rec.body_atr_mult)

Succeeded(c) == c \in DOMAIN train_results /\ train_results[c] # None

FitnessOf(c) == calculate_fitness(train_results[c][1])

\* C12: an evaluation that raises does not end either search: the step that
\* met the exception leaves the run in its loop, at the next candidate or
\* individual, with the candidate list and the best so far untouched; and a
\* record that is returned holds a parameter set whose evaluation on the
\* training bars completed.
C12_RaisingEvaluationContinues ==
    [][/\ (opt_pc \in {"grid_loop", "ga_loop"} /\ opt_i' = opt_i + 1
             /\ train_results'[CurrentCandidate] = None) =>
             /\ opt_pc' = opt_pc
             /\ opt_error' = ""
             /\ combinations' = combinations
             /\ population' = population
             /\ best_params' = best_params
             /\ best_fitness' = best_fitness
       /\ (opt_record' # None) =>
             /\ ParamsOf(opt_record'[1]) \in DOMAIN train_results'
             /\ train_results'[ParamsOf(opt_record'[1])] # None]_vars

\* optimize_genetic has returned a record in a run of several generations
\* in which the evaluation of some individual raised
C12_Witness ==
    /\ opt_method = "genetic" /\ opt_pc = "returned" /\ generations >= 2
    /\ \E c \in DOMAIN train_results : train_results[c] = None

\* C13: when no evaluation of the run succeeded, the run ends with the
\* optimization-failed error, raised after the search loop, and no record.
C13_AllFailedRaisesOptimizationFailed ==
    (opt_pc \in {"returned", "raised"}
       /\ \A c \in DOMAIN train_results : train_results[c] = None) =>
        /\ opt_pc = "raised"
        /\ opt_error = "OptimizationFailed"
        /\ opt_record = None

\* among the candidates evaluated so far by optimize_grid_search, the first
\* that no evaluated candidate beats
GridFirstBest ==
    { j \in 1..opt_i :
        /\ Succeeded(combinations[j])
        /\ \A m \in 1..opt_i :
              Succeeded(combinations[m]) =>
                  /\ RLe(FitnessOf(combinations[m]), FitnessOf(combinations[j]))
                  /\ (m < j) => RLt(FitnessOf(combinations[m]),
                                    FitnessOf(combinations[j])) }

\* C14: optimize_grid_search keeps, and returns, the first evaluated
\* candidate of highest training fitness, and the fitness_score it returns
\* is that fitness: no successfully evaluated candidate has a higher one.
C14_GridReturnsFirstBest ==
    (opt_method = "grid" /\ opt_pc \in {"grid_loop", "returned"}) =>
        /\ (best_params = None) <=> (GridFirstBest = {})
        /\ \A j \in GridFirstBest :
              /\ best_params = Some(combinations[j])
              /\ best_fitness = FitnessOf(combinations[j])
        /\ (opt_pc = "returned") =>
              /\ Some(ParamsOf(opt_record[1])) = best_params
              /\ opt_record[1].fitness_score = best_fitness
              /\ \A m \in 1..opt_i :
                    Succeeded(combinations[m]) =>
                        RLe(FitnessOf(combinations[m]),
                            opt_record[1].fitness_score)

\* a record returned for a candidate that a later candidate tied with
C14_Witness ==
    /\ opt_method = "grid" /\ opt_pc = "returned"
    /\ \E j, m \in 1..opt_i :
          /\ j < m
          /\ combinations[j] # combinations[m]
          /\ Some(combinations[j]) = best_params
          /\ Succeeded(combinations[m])
          /\ FitnessOf(combinations[m]) = best_fitness

\* C15: in optimize_genetic the best fitness tracked never goes down, and
\* the record returned is that of an individual whose training fitness no
\* individual evaluated in any generation exceeds.
C15_GeneticKeepsBestEver ==
    [][(opt_method = "genetic") =>
          /\ FitnessLe(best_fitness, best_fitness')
          /\ (opt_pc' = "returned") =>
                /\ ParamsOf(opt_record'[1]) \in DOMAIN train_results'
                /\ train_results'[ParamsOf(opt_record'[1])] # None
                /\ opt_record'[1].fitness_score =
                       calculate_fitness(
                           train_results'[ParamsOf(opt_record'[1])][1])
                /\ \A c \in DOMAIN train_results' :
                      (train_results'[c] # None) =>
                          RLe(calculate_fitness(train_results'[c][1]),
                              opt_record'[1].fitness_score)]_vars

\* a record returned after three generations whose last generation holds an
\* individual that scored below the best, or failed
C15_Witness ==
    /\ opt_method = "genetic" /\ opt_pc = "returned" /\ generations = 3
    /\ \E j \in 1..Len(population) :
          \/ train_results[population[j]] = None
          \/ RLt(FitnessOf(population[j]), best_fitness)

\* C16: the record returned by optimize_grid_search carries the figures that
\* backtest_strategy gives for the record's own ten parameters on the
\* training bars: trade count, profit percent, ratio, drawdown percent and
\* the winning share of the trades in percent.
C16_GridRecordMatchesBacktest ==
    (opt_method = "grid" /\ opt_pc = "returned") =>
        /\ Succeeded(ParamsOf(opt_record[1]))
        /\ LET rec == opt_record[1]
               r == train_results[ParamsOf(opt_record[1])][1]
           IN  /\ rec.total_trades = r.total_trades
               /\ rec.total_profit_pct = r.total_profit_pct
               /\ rec.sharpe_ratio = r.sharpe_ratio
               /\ rec.max_drawdown_pct = r.max_drawdown_pct
               /\ rec.win_rate =
                      (IF r.total_trades > 0
                       THEN RMul(Q(r.winning_trades, r.total_trades), R(100))
                       ELSE Zero)

\* a record returned for a candidate that replaced an earlier best
C16_Witness ==
    /\ opt_method = "grid" /\ opt_pc = "returned"
    /\ \E j \in 1..opt_i :
          /\ Succeeded(combinations[j])
          /\ RLt(FitnessOf(combinations[j]), best_fitness)
          /\ \E m \in (j + 1)..opt_i : Some(combinations[m]) = best_params

\* C17: a strategy written by to_dict and read back by from_dict is the
\* strategy that was written, in every field: the instrument, the parameter
\* set with its metrics, the instant of the last retraining, the interval,
\* and the optional name and source snippet.
C17_RoundTripEqual ==
    (flat_origin = "to_dict" /\ loaded # None) =>
        /\ loaded[1].error = ""
        /\ loaded[1].value = Some(adaptive)

\* C18: from_dict raises, and gives no strategy, for every record in which
\* a required field is missing or holds a value of the wrong kind.
C18_DefectiveRecordRejected ==
    (flat_origin \in Defects /\ loaded # None) =>
        /\ loaded[1].error # ""
        /\ loaded[1].value = None

\* whole days from instant a to instant b, counted on the elapsed seconds
WholeDaysElapsed(a, b) ==
    ((b.day - a.day) * SecondsPerDay + (b.second - a.second)
        - (IF b.microsecond < a.microsecond THEN 1 ELSE 0)) \div SecondsPerDay

\* C19: should_retrain answers true exactly when the whole days elapsed
\* since the last retraining reach the retrain interval; asked at the
\* instant of construction with a positive interval it answers false.
C19_ShouldRetrainExact ==
    retrain_answer # None =>
        LET asked == retrain_answer[1] IN
        /\ asked.value =
              (WholeDaysElapsed(adaptive.last_retrain_date, asked.at)
                  >= adaptive.retrain_period_days)
        /\ (asked.at = adaptive.last_retrain_date
                /\ adaptive.retrain_period_days > 0) => asked.value = FALSE

\* asked half a day short of the interval, on the thirtieth calendar day
C19_Witness ==
    /\ retrain_answer # None
    /\ adaptive.retrain_period_days = 30
    /\ retrain_answer[1].at.day - adaptive.last_retrain_date.day = 30
    /\ Before(retrain_answer[1].at,
              [adaptive.last_retrain_date EXCEPT !.day = @ + 30])
    /\ retrain_answer[1].value = FALSE

\* C20: a BUY is appended only by a step of the walk taken while flat, at a
\* bar where momentum and the entry threshold are defined, momentum is
\* positive and above the threshold, the volatility phase is high and the
\* bar-strength filter is true; its price is the close of that bar and its
\* stop, which becomes the trailing stop, is the stop level computed for the
\* bar, or 2% below the close when that level is undefined.
C20_BuyOnlyOnEntryBar ==
    [][(/\ Len(signals') = Len(signals) + 1
        /\ signals'[Len(signals')].action = "BUY") =>
          LET bought == signals'[Len(signals')]
              bar == At(candles, i)
              close == R(bar.close)
              momentum == At(indicators.kama_delta, i)
              threshold == At(indicators.entry_filter, i)
              stop == At(indicators.sl_level, i)
          IN  /\ pc = "walk" /\ position = 0
              /\ ~IsNaN(momentum) /\ ~RootIsNaN(threshold)
              /\ RGt(momentum, Zero)
              /\ GtRoot(momentum, threshold)
              /\ At(indicators.in_vol_phase, i) = TRUE
              /\ At(indicators.is_bull_strong, i) = TRUE
              /\ bought.price = close
              /\ bought.time = bar.time
              /\ bought.sl = Some(IF IsNaN(stop)
                                  THEN RMul(close, Q(98, 100)) ELSE stop)
              /\ position' = 1
              /\ entry_price' = close
              /\ sl_level' = bought.sl[1]]_vars

\* the walk has just entered: the last signal is a BUY whose stop, below its
\* price, is the trailing stop
C20_Witness ==
    /\ pc = "walk" /\ position = 1
    /\ signals # << >>
    /\ LastSignal.action = "BUY"
    /\ LastSignal.sl = Some(sl_level)
    /\ RLt(sl_level, LastSignal.price)

\* C21: a step of the walk taken while long, at a bar whose low is at or
\* below the trailing stop, appends a SELL with reason SL priced at the stop,
\* with profit = stop - entry price, whether or not the exit filter is true
\* on that bar; a SELL with reason EXIT_FILTER is appended only at a bar
\* whose low is above the stop, and is priced at the close.
C21_StopLossFirst ==
    [][(pc = "walk" /\ i < Len(candles) /\ position > 0) =>
          LET low == R(At(candles, i).low)
              close == R(At(candles, i).close)
              sold == signals'[Len(signals')]
          IN  /\ RLe(low, sl_level) =>
                    /\ Len(signals') = Len(signals) + 1
                    /\ sold.action = "SELL"
                    /\ sold.reason = Some("SL")
                    /\ sold.price = sl_level
                    /\ sold.time = At(candles, i).time
                    /\ sold.profit = Some(RSub(sl_level, entry_price))
                    /\ position' = 0
              /\ (/\ Len(signals') = Len(signals) + 1
                  /\ sold.reason = Some("EXIT_FILTER")) =>
                    /\ ~RLe(low, sl_level)
                    /\ sold.price = close
                    /\ sold.profit = Some(RSub(close, entry_price))]_vars

\* the bar just walked hit the stop while its exit filter was true as well
C21_Witness ==
    /\ pc = "walk" /\ i > 0
    /\ signals # << >>
    /\ LastSignal.reason = Some("SL")
    /\ LastSignal.time = At(candles, i - 1).time
    /\ FilterExit(indicators, i - 1)

\* 0-based index of the bar a signal was emitted at
BarOf(signal) == CHOOSE j \in 0..(Len(candles) - 1) : At(candles, j).time = signal.time

\* C22: the phase mean of a bar is defined only when every volatility value
\* of its window is defined, and no BUY is emitted at a bar with index below
\* atr_len + atr_phase_len.
C22_NoBuyOnPartialPhaseWindow ==
    /\ \A j \in 0..(Len(indicators.atr_sma) - 1) :
          ~IsNaN(At(indicators.atr_sma, j)) =>
              /\ j >= params.atr_phase_len
              /\ \A w \in (j - params.atr_phase_len)..(j - 1) :
                    ~IsNaN(At(indicators.atr, w))
    /\ \A n \in 1..Len(signals) :
          signals[n].action = "BUY" =>
              BarOf(signals[n]) >= params.atr_len + params.atr_phase_len

\* q is floor(amount / price): the most units of that price the amount buys
IsFloorOf(q, amount, price) ==
    /\ q >= 0
    /\ RLe(RMul(R(q), price), amount)
    /\ RGt(RMul(R(q + 1), price), amount)

\* C23: processing a signal changes cash, position or the trade list only
\* for a BUY while flat whose size floor(balance / price) is positive and
\* whose notional plus entry commission fits in the balance (cash goes down
\* by exactly notional + commission, the position becomes the size, one open
\* trade is appended), or for a SELL while holding; every other signal
\* leaves the three unchanged.
C23_OnlyFittingBuyOrHeldSell ==
    [][(pc = "bt_loop" /\ k < Len(signals) /\ k' = k + 1) =>
          LET sig == At(signals, k)
              size == CHOOSE q \in 0..200 : IsFloorOf(q, balance, sig.price)
              notional == RMul(R(size), sig.price)
              fee == RDiv(RMul(notional, commission), R(100))
              fits == /\ sig.action = "BUY" /\ bt_position = 0
                      /\ size > 0
                      /\ RLe(RAdd(notional, fee), balance)
              held_sell == sig.action = "SELL" /\ bt_position > 0
          IN  /\ fits =>
                    /\ balance' = RSub(balance, RAdd(notional, fee))
                    /\ bt_position' = size
                    /\ Len(trades') = Len(trades) + 1
                    /\ SubSeq(trades', 1, Len(trades)) = trades
                    /\ trades'[Len(trades')].exit_time = None
                    /\ trades'[Len(trades')].quantity = size
                    /\ trades'[Len(trades')].entry_price = sig.price
              /\ (~fits /\ ~held_sell) =>
                    /\ balance' = balance
                    /\ bt_position' = bt_position
                    /\ trades' = trades]_vars

\* a position has just been bought, with a commission, out of the balance
C23_Witness ==
    /\ pc = "bt_loop"
    /\ commission # Zero
    /\ bt_position > 0
    /\ trades # << >>
    /\ RLt(balance, initial_balance)

\* units * price less the commission on it
NetOfFee(units, price) ==
    RSub(RMul(R(units), price),
         RDiv(RMul(RMul(R(units), price), commission), R(100)))

\* entry notional plus the commission on it
GrossOfFee(units, price) ==
    RAdd(RMul(R(units), price),
         RDiv(RMul(RMul(R(units), price), commission), R(100)))

\* the profit of a closed trade, from its prices and size
RealizedProfit(t) ==
    RSub(NetOfFee(t.quantity, t.exit_price[1]),
         GrossOfFee(t.quantity, t.entry_price))

RECURSIVE SumOfProfits(_)
SumOfProfits(ts) ==
    IF ts = << >> THEN Zero
    ELSE RAdd(SumOfProfits(SubSeq(ts, 1, Len(ts) - 1)), ts[Len(ts)].profit[1])

\* C24: every closed trade records as its profit the credit of its SELL
\* (units * price less the exit commission) less the entry notional and the
\* entry commission, and the balance accounts for nothing else: at every
\* point of the run the balance, plus what an open position cost, less the
\* starting balance is the sum of the profits of the closed trades; in the
\* result, final_balance less the starting balance is the sum of the
\* profits of result.trades, and total_profit is that difference.
C24_CashConservation ==
    pc \in {"bt_loop", "done", "raised"} =>
        LET closed == SelectSeq(trades, IsCompleted)
            invested == IF bt_position > 0 /\ pc = "bt_loop"
                        THEN GrossOfFee(bt_position, bt_entry_price)
                        ELSE Zero
        IN  /\ \A n \in 1..Len(closed) :
                  closed[n].profit = Some(RealizedProfit(closed[n]))
            /\ RSub(RAdd(balance, invested), initial_balance)
                  = SumOfProfits(closed)
            /\ pc = "done" =>
                  /\ result[1].trades = closed
                  /\ RSub(result[1].final_balance, initial_balance)
                        = SumOfProfits(result[1].trades)
                  /\ result[1].total_profit = SumOfProfits(result[1].trades)

\* a run that paid commission on both legs of a trade and did not break even
C24_Witness ==
    /\ pc = "done"
    /\ commission # Zero
    /\ result[1].trades # << >>
    /\ result[1].total_profit # Zero

\* the close of the bar a signal was emitted at: the last close known then
CloseKnownAt(signal) == R(At(candles, BarOf(signal)).close)

\* C25: the equity point appended after a signal is the cash when flat and
\* cash + units * (the close of the signal's bar) when long.
C25_EquityMarkedAtSignalClose ==
    [][(pc = "bt_loop" /\ k < Len(signals) /\ k' = k + 1) =>
          /\ Len(equity_curve') = Len(equity_curve) + 1
          /\ equity_curve'[Len(equity_curve')] =
                IF bt_position' > 0
                THEN RAdd(balance',
                          RMul(R(bt_position'), CloseKnownAt(At(signals, k))))
                ELSE balance']_vars

\* the highest equity among the first j points of the curve
PeakAt(curve, j) ==
    CHOOSE x \in { curve[a] : a \in 1..j } : \A a \in 1..j : RLe(curve[a], x)

\* the decline of point j from the peak before it, as a percent of the peak
DeclinePct(curve, j) ==
    RMul(RDiv(RSub(curve[j], PeakAt(curve, j)), PeakAt(curve, j)), R(100))

\* C26: max_drawdown_pct is the least, over the points of the equity curve,
\* of the decline from the running peak as a percent of that peak; it is
\* never positive and is 0 for a curve that never falls; max_drawdown is
\* the same decline as an amount, the equity at a worst point less the peak
\* it fell from.
C26_DrawdownPercentAndAmount ==
    stat_out # None =>
        LET points == 1..Len(stat_in)
            out == stat_out[1]
        IN  /\ \A j \in points : RLe(out.max_drawdown_pct, DeclinePct(stat_in, j))
            /\ \E j \in points : out.max_drawdown_pct = DeclinePct(stat_in, j)
            /\ RLe(out.max_drawdown_pct, Zero)
            /\ (\A j \in points : j > 1 => RLe(stat_in[j - 1], stat_in[j]))
                  => out.max_drawdown_pct = Zero
            /\ \E j \in points :
                  /\ out.max_drawdown_pct = DeclinePct(stat_in, j)
                  /\ out.max_drawdown = RSub(stat_in[j], PeakAt(stat_in, j))

\* every step of the curve has the same return (none, for a single point)
EqualReturns(curve) ==
    \A a, b \in 1..(Len(curve) - 1) :
        RDiv(RSub(curve[a + 1], curve[a]), curve[a])
          = RDiv(RSub(curve[b + 1], curve[b]), curve[b])

\* lines 428-432 alone give the ratio 0 for every curve of fewer than two
\* points and every curve whose step returns are all the same
RatioZeroOnDegenerateCurve ==
    (stat_out # None /\ (Len(stat_in) < 2 \/ EqualReturns(stat_in)))
        => stat_out[1].sharpe_ratio.literal_zero

\* C27: a run of backtest_strategy whose equity curve has fewer than two
\* points, or whose step returns are all the same, ends without raising and
\* returns the risk-adjusted ratio 0.
C27_DegenerateRatioIsZero ==
    (/\ pc \in {"done", "raised"}
     /\ (Len(equity_curve) < 2 \/ EqualReturns(equity_curve))) =>
        /\ pc = "done"
        /\ result[1].sharpe_ratio.literal_zero

\* the two results agree in profit percent, ratio, drawdown and win rate
SameButTradeCount(a, b) ==
    /\ a.total_profit_pct = b.total_profit_pct
    /\ a.sharpe_ratio = b.sharpe_ratio
    /\ a.max_drawdown_pct = b.max_drawdown_pct
    /\ a.winning_trades * b.total_trades = b.winning_trades * a.total_trades

\* C28: of two results that agree in profit percent, ratio, win rate and
\* drawdown, the one with fewer than 10 trades never has the higher fitness
\* than the one with 10 or more; a result with no trade is scored, with a
\* win rate of 0.
C28_FewTradesNeverScoreHigher ==
    /\ \A n \in 1..Len(fit_out) :
          fit_in[n].total_trades = 0 =>
              /\ WinRate(fit_in[n]) = Zero
              /\ ~IsNaN(fit_out[n])
    /\ Len(fit_out) = 2 =>
          \A a, b \in {1, 2} :
              (/\ SameButTradeCount(fit_in[a], fit_in[b])
               /\ fit_in[a].total_trades < 10
               /\ fit_in[b].total_trades >= 10) =>
                  RLe(fit_out[a], fit_out[b])

\* C29: the training bars are the first floor(0.8 * n) bars of the series in
\* their order and the validation bars are the rest in their order, so the
\* two share no bar and together are the series; and while a search is in
\* its loop, where the winner is chosen, every backtest it has run was on
\* the training bars.
C29_ChronologicalSplit ==
    opt_pc # "idle" =>
        LET n == Len(self_candles)
            cut == CHOOSE c \in 0..n : 5 * c <= 4 * n /\ 4 * n < 5 * (c + 1)
        IN  /\ train_candles = [j \in 1..cut |-> self_candles[j]]
            /\ val_candles = [j \in 1..(n - cut) |-> self_candles[cut + j]]
            /\ train_candles \o val_candles = self_candles
            /\ \A a \in 1..Len(train_candles), b \in 1..Len(val_candles) :
                  train_candles[a] < val_candles[b]
            /\ (opt_pc \in {"grid_loop", "ga_loop"} /\ backtest_candles # None)
                  => backtest_candles = Some(train_candles)

\* a grid search over four bars that chose its winner on the first three
\* and then ran the validation backtest on the fourth
C29_Witness ==
    /\ opt_pc = "returned"
    /\ opt_method = "grid"
    /\ Len(self_candles) = 4
    /\ Len(train_candles) = 3
    /\ best_params # None
    /\ backtest_candles = Some(val_candles)

\* the number of combinations of the candidate lists
RECURSIVE ProductSize(_)
ProductSize(ranges) ==
    IF ranges = << >> THEN 1
    ELSE Len(Head(ranges).values) * ProductSize(Tail(ranges))

\* the place of a combination in product order, counted from 0: its values'
\* positions in their lists read as digits, the first parameter's first
RECURSIVE ProductRank(_, _, _)
ProductRank(ranges, c, rank) ==
    IF ranges = << >> THEN rank
    ELSE LET list == Head(ranges).values
             digit == CHOOSE j \in 1..Len(list) : list[j] = c[Head(ranges).key]
         IN  ProductRank(Tail(ranges), c, rank * Len(list) + (digit - 1))

\* every parameter of the combination is one of its candidate values
FromCandidateLists(ranges, c) ==
    /\ DOMAIN c = { ranges[m].key : m \in 1..Len(ranges) }
    /\ \A m \in 1..Len(ranges) :
          \E j \in 1..Len(ranges[m].values) :
              c[ranges[m].key] = ranges[m].values[j]

\* C30: when the product of the candidate lists has at most max_iterations
\* combinations the grid search evaluates each of them once, in product
\* order; otherwise it evaluates exactly max_iterations combinations; either
\* way never more than max_iterations, and every evaluated combination
\* takes each parameter from that parameter's candidate list.
C30_GridEvaluationsBounded ==
    (opt_method = "grid" /\ opt_pc \in {"grid_loop", "raised", "returned"}) =>
        LET size == ProductSize(param_ranges)
            finished == opt_pc \in {"raised", "returned"}
        IN  /\ opt_i <= max_iterations
            /\ opt_i <= Len(combinations)
            /\ \A j \in 1..Len(combinations) :
                  FromCandidateLists(param_ranges, combinations[j])
            /\ size <= max_iterations =>
                  /\ Len(combinations) = size
                  /\ \A j \in 1..size :
                        ProductRank(param_ranges, combinations[j], 0) = j - 1
                  /\ finished => opt_i = size
            /\ size > max_iterations =>
                  /\ Len(combinations) = max_iterations
                  /\ finished => opt_i = max_iterations

\* a search capped at two of four combinations that drew the same
\* combination twice, evaluated both draws and returned
C30_Witness ==
    /\ opt_method = "grid"
    /\ opt_pc = "returned"
    /\ ProductSize(param_ranges) = 4
    /\ max_iterations = 2
    /\ opt_i = 2
    /\ combinations[1] = combinations[2]

\* C31: a breeding step never takes into the elite (the first
\* population_size // 2 individuals of the next generation, the only
\* crossover parents) an individual whose evaluation failed in the
\* generation just scored, however many individuals of it failed.
C31_FailedNeverInElite ==
    [][(/\ opt_pc = "ga_loop"
        /\ opt_i = Len(population)
        /\ generation < generations - 1
        /\ generation' = generation + 1) =>
           \A j \in 1..(population_size \div 2) :
               \E a \in 1..Len(population) :
                   /\ population[a] = population'[j]
                   /\ fitness_scores[a] # NegInf]_vars

IntegerParams ==
    { "kama_len", "kama_fast", "kama_slow", "atr_len", "atr_phase_len" }

\* the genes of p lie within param_bounds; the integer-typed ones are
\* integers (they are compared as integers of the model)
WithinBounds(p) ==
    \A key \in ParamKeys :
        LET lo == param_bounds[key][1]
            hi == param_bounds[key][2]
        IN  IF key \in IntegerParams
            THEN /\ R(p[key]).d = 1
                 /\ RLe(lo, R(p[key])) /\ RLe(R(p[key]), hi)
            ELSE RLe(lo, p[key]) /\ RLe(p[key], hi)

\* C32: in the genetic search every gene of every individual of every
\* generation, of the best individual and of the returned record lies within
\* the declared bound of its parameter, and kama_len, kama_fast, kama_slow,
\* atr_len and atr_phase_len hold integers.
C32_GenesWithinBounds ==
    opt_method = "genetic" =>
        /\ \A j \in 1..Len(population) : WithinBounds(population[j])
        /\ best_params # None => WithinBounds(best_params[1])
        /\ opt_record # None => WithinBounds(opt_record[1])

\* a record returned after three generations of two individuals whose last
\* child differs from its only parent: it was mutated
C32_Witness ==
    /\ opt_method = "genetic"
    /\ opt_pc = "returned"
    /\ generations = 3
    /\ population_size = 2
    /\ population[2] # population[1]
    /\ opt_record # None

\* C33: for population_size >= 1 and generations >= 1 the genetic search
\* holds exactly population_size individuals in every generation, runs
\* exactly `generations` generations before it returns a record or raises
\* the no-valid-candidate error, and its breeding step never fails.
C33_FixedSizeAndBreedingNeverFails ==
    (opt_method = "genetic" /\ population_size >= 1 /\ generations >= 1) =>
        /\ opt_pc # "start" => Len(population) = population_size
        /\ opt_i <= population_size
        /\ opt_pc \in {"raised", "returned"} =>
              /\ generation = generations
              /\ opt_error \in {"", "OptimizationFailed"}
        /\ opt_error # "randint"

\* C34: with a positive commission, a BUY signal processed while flat opens
\* a trade whenever the balance affords one unit with its commission:
\* balance * equity_percent / 100 >= price and
\* price * (1 + commission / 100) <= balance.
C34_AffordableBuyOpensTrade ==
    [][(/\ pc = "bt_loop" /\ k < Len(signals) /\ k' = k + 1
        /\ At(signals, k).action = "BUY"
        /\ bt_position = 0
        /\ RGt(commission, Zero)
        /\ RLe(At(signals, k).price,
               RMul(balance, RDiv(equity_percent, R(100))))
        /\ RLe(RMul(At(signals, k).price,
                    RAdd(R(1), RDiv(commission, R(100)))),
               balance)) =>
           /\ Len(trades') = Len(trades) + 1
           /\ bt_position' > 0]_vars

\* C35: at every point of backtest_strategy, after any number of processed
\* signals and after the final close, the cash balance is not negative and
\* the held position is not negative.
C35_BalanceAndPositionNonNegative ==
    pc \in {"bt_loop", "done", "raised"} =>
        /\ ~IsNaN(balance)
        /\ RLe(Zero, balance)
        /\ bt_position >= 0

\* an entry that spent the balance on the notional and its commission has
\* been sold again: the balance is below the starting balance and the
\* simulator is flat
C35_Witness ==
    /\ pc = "bt_loop"
    /\ k >= 2
    /\ commission # Zero
    /\ bt_position = 0
    /\ Len(trades) >= 1
    /\ RLt(balance, initial_balance)

\* C36: when a pass of the trading loop has forwarded a signal and the walk
\* over the history ended long (it entered and has not exited since), the
\* signal forwarded to _execute_signal is the BUY of that entry.
C36_LongAtLatestBarForwardsBuy ==
    (pc = "forwarded" /\ position > 0) =>
        /\ pool[1].last_signal # None
        /\ pool[1].last_signal[1].action = "BUY"

\* no pass of the trading loop ever forwards a BUY, posts an order or leaves
\* the trader with a position
NeverBuys ==
    /\ orders = << >>
    /\ \A t \in 1..Len(pool) :
          /\ pool[t].position = 0
          /\ pool[t].last_signal # None =>
                pool[t].last_signal[1].action = "SELL"

\* the threads of trader t that are loading the history or inside an
\* iteration of the loop
Working(t) ==
    { j \in 1..Len(pool[t].loops) : pool[t].loops[j] \in {"load", "body"} }

\* C37: whatever start() and stop() calls are made on an AutoTrader, at most
\* one thread running its _trading_loop is fetching bars or executing
\* signals at any time.
C37_AtMostOneLoopThread ==
    \A t \in 1..Len(pool) : Cardinality(Working(t)) <= 1

\* C39: an iteration of the trading loop that appended bars leaves at most
\* 500 bars in candles_history, and the bars it appended have strictly
\* increasing times, all later than every bar the history held before.
C39_HistoryBoundedAndOrdered ==
    [][\A t \in 1..Len(pool) :
          LET before == pool[t].candles_history
              after == pool'[t].candles_history
          IN  (/\ \E j \in 1..Len(pool[t].loops) :
                     pool[t].loops[j] = "body" /\ pool'[t].loops[j] = "sleep"
               /\ after # before) =>
                  /\ Len(after) <= 500
                  /\ \E n \in 1..2 :
                        /\ n <= Len(after)
                        /\ \E d \in 0..n :
                              SubSeq(after, 1, Len(after) - n)
                                  = SubSeq(before, d + 1, Len(before))
                        /\ \A a \in (Len(after) - n + 1)..Len(after) :
                              /\ \A c \in 1..Len(before) : before[c] < after[a]
                              /\ a < Len(after) => after[a] < after[a + 1]]_vars

\* C38: every trader whose is_running is true is the trader registered
\* under its key in _active_traders, whatever start_auto_trader and
\* stop_auto_trader calls are made and however they overlap.
C38_RunningTraderIsRegistered ==
    \A t \in 1..Len(pool) :
        pool[t].is_running =>
            /\ Key \in DOMAIN active_traders
            /\ active_traders[Key] = t

=============================================================================
